---------------------------- MODULE Spec2Model ----------------------------
(***************************************************************************)
(* A model of the ANI regulations pipeline: the change probe and the page  *)
(* extractor (src/src/extraccion.py), the rule-driven validator            *)
(* (src/src/validacion.py), the deduplicating writer                       *)
(* (src/src/escritura.py) and the two entry shapes that sequence them      *)
(* (src/lambda.py, src/dags/ani_regulations_dag.py).                       *)
(*                                                                         *)
(* Text is a sequence of one-character strings, so that trimming,          *)
(* concatenation with the "|" separator, length and pattern matching are   *)
(* computed as the code computes them.  A cell of a data frame is a tagged *)
(* value [t, v]: t is the Python type of the cell ("null", "str", "int",   *)
(* "bool") and v its text.                                                 *)
(***************************************************************************)
EXTENDS Integers, Sequences, FiniteSets, TLC

VARIABLES
    regulations,    \* the regulations table: a sequence of [id, row]
    components,     \* the regulations_component table
    wr,             \* the last run of insert_new_records: its input and result
    wprev,          \* the status of the run before it, and whether wr repeats its batch
    runs,           \* the number of writer runs so far
    vin,            \* the input of apply_validation: [df, rules]
    vout,           \* its result: [done, df, stats]
    pin,            \* the input of check_for_new_content
    pout,           \* its result
    pl,             \* the state of one pipeline run (lambda_handler or the DAG)
    xin,            \* the listing page handed to scrape_page
    xout,           \* what scrape_page returned for it
    cw              \* two writer runs on one store, each with its own session

vars == <<regulations, components, wr, wprev, runs, xin, xout, cw, vin, vout, pin, pout, pl, xin, xout, cw>>

---------------------------------------------------------------------------
(* Bounds of the model.                                                    *)

\* The longest batch handed to the writer.
MaxBatch == 2
\* The most rows the store holds before the first run.
MaxInit == 1
\* The most times a batch is handed to the writer again after its first run.
MaxReruns == 1
\* The most rows of a frame handed to the validator.
MaxVRows == 2
\* The most records the pages the probe reads hold together.
MaxSiteRows == 2
\* The most records the site of a pipeline run holds.
MaxRunRows == 2

---------------------------------------------------------------------------
(* Text and cells.                                                         *)

NULL == [t |-> "null", v |-> <<>>]
S(text) == [t |-> "str", v |-> text]
IsNull(c) == c.t = "null"

\* str(value): the text of a cell; None prints as "None".
AsStr(c) == IF IsNull(c) THEN <<"N", "o", "n", "e">> ELSE c.v

\* fillna("")
FillNa(c) == IF IsNull(c) THEN S(<<>>) ELSE c

RECURSIVE LStrip(_)
LStrip(s) == IF s # <<>> /\ Head(s) = " " THEN LStrip(Tail(s)) ELSE s

RECURSIVE RStrip(_)
RStrip(s) ==
    IF s # <<>> /\ s[Len(s)] = " " THEN RStrip(SubSeq(s, 1, Len(s) - 1)) ELSE s

\* str.strip()
Strip(s) == RStrip(LStrip(s))

SeqRange(s) == {s[i] : i \in 1..Len(s)}

\* All sequences over S of length at most n.
RECURSIVE SeqsUpTo(_, _)
SeqsUpTo(set, n) ==
    IF n = 0 THEN {<<>>}
    ELSE LET shorter == SeqsUpTo(set, n - 1)
         IN  shorter \cup {Append(s, x) : s \in {q \in shorter : Len(q) = n - 1}, x \in set}

---------------------------------------------------------------------------
(* The deduplicating writer: src/src/escritura.py.                         *)

ENTITY_VALUE == <<"Agencia Nacional de Infraestructura">>
OtherEntity == <<"Otra entidad">>
COMPONENT_ID == 7

\* The columns insert_new_records reads by name; a frame without one of them
\* raises KeyError inside the outer try.
WriterCols == {"title", "created_at", "entity", "external_link"}

\* What can go wrong in the store during one run (psycopg2 raising):
\*   query        the SELECT of the persisted records
\*   insert_unique  the bulk insert, with a uniqueness violation
\*   insert_other   the bulk insert or its commit, with any other error
\*   ids_query    the SELECT of the new ids
\*   component    the bulk insert of the component rows
Faults == {"none", "query", "insert_unique", "insert_other", "ids_query", "component"}

\* SELECT ... FROM regulations WHERE entity = %s
ExistingRecords(regs, entity) ==
    SelectSeq(regs, LAMBDA r : r.row.entity = S(entity))

\* Lines 159-162: the persisted projection, normalised.
NormalizeDb(row) ==
    [title |-> Strip(AsStr(row.title)),
     created_at |-> AsStr(row.created_at),
     external_link |-> AsStr(FillNa(row.external_link))]

\* NormalizeIncoming without the str.strip() of line 166.
NormalizeIncomingNoStrip(row) ==
    [row EXCEPT !.created_at = S(AsStr(row.created_at)),
                !.external_link = S(AsStr(FillNa(row.external_link))),
                !.title = S(AsStr(row.title))]

\* Lines 164-166: the incoming rows, normalised in place (the normalised
\* values are the ones inserted).
NormalizeIncoming(row) ==
    [row EXCEPT !.created_at = S(AsStr(row.created_at)),
                !.external_link = S(AsStr(FillNa(row.external_link))),
                !.title = S(Strip(AsStr(row.title)))]

\* Lines 175-179: title + "|" + created_at + "|" + external_link
UniqueKey(title, created_at, link) ==
    title \o <<"|">> \o created_at \o <<"|">> \o link

DbUniqueKey(d) == UniqueKey(d.title, d.created_at, d.external_link)
RowUniqueKey(row) == UniqueKey(row.title.v, row.created_at.v, row.external_link.v)

\* drop_duplicates keeping every row.
KeepAllIndices(rows) == 1..Len(rows)

\* drop_duplicates handing every row on twice.
DropDuplicatesRepeats(rows) == rows \o rows

\* Line 195: drop_duplicates(subset=[title, created_at, external_link], keep="first")
SubsetKey(row) == <<row.title, row.created_at, row.external_link>>

KeepFirstIndices(rows) ==
    {i \in 1..Len(rows) : \A j \in 1..(i - 1) : SubsetKey(rows[j]) # SubsetKey(rows[i])}

RECURSIVE PickIndices(_, _, _)
PickIndices(rows, keep, i) ==
    IF i > Len(rows) THEN <<>>
    ELSE (IF i \in keep THEN <<rows[i]>> ELSE <<>>) \o PickIndices(rows, keep, i + 1)

DropDuplicates(rows) == PickIndices(rows, KeepFirstIndices(rows), 1)

\* DatabaseManager.bulk_insert into the regulations table: every row gets the
\* next identifier, in frame order, and the transaction commits as a whole.
BulkInsertRegulations(regs, rows) ==
    regs \o [i \in 1..Len(rows) |-> [id |-> Len(regs) + i, row |-> rows[i]]]

\* The id query with ORDER BY id ASC: the n oldest ids of the entity.
OldestIds(ex, n) == [i \in 1..(IF n < Len(ex) THEN n ELSE Len(ex)) |-> ex[i].id]

\* SELECT id ... WHERE entity = %s ORDER BY id DESC LIMIT n
RECURSIVE NewestIds(_, _)
NewestIds(ex, n) ==
    IF n = 0 \/ ex = <<>> THEN <<>>
    ELSE <<ex[Len(ex)].id>> \o NewestIds(SubSeq(ex, 1, Len(ex) - 1), n - 1)

\* insert_regulations_component: one row per id, components_id = 7.
ComponentRows(new_ids) ==
    [i \in 1..Len(new_ids) |-> [regulations_id |-> new_ids[i], components_id |-> COMPONENT_ID]]

\* bulk_insert whose except clause lacks the rollback of line 100: the rows
\* executed before the failure stay in the table.
RollbackSkipped(regs, rows) == BulkInsertRegulations(regs, rows)

\* Lines 99-101 of bulk_insert: a failing executemany or commit rolls the
\* transaction back, so the table is what it was, and RuntimeError is raised.
Rollback(regs, rows) == regs

\* insert_regulations_component letting its failure escape to the outer except
\* of insert_new_records: (0, "Error processing entity ...").
ComponentFailureRaises(count) == [count |-> 0, msg |-> "error", component_message |-> ""]

\* Lines 126-128 and 246-267: insert_regulations_component catches its own
\* failure and returns (0, "Error inserting regulation components: ...");
\* the run still returns the number of regulations inserted and the statistics
\* message, to which the component message is appended.
ComponentFailure(count) == [count |-> count, msg |-> "inserted", component_message |-> "error"]

\* The result of a run; `failed' is the store operation that failed in the run
\* ("" when none did).
WriterReturn(regs, comps, count, msg, processed, existing, dup, internal, isdup, handed, compmsg) ==
    [regulations |-> regs, components |-> comps, count |-> count, msg |-> msg,
     processed |-> processed, existing |-> existing,
     duplicates_found |-> dup, internal_duplicates |-> internal,
     is_duplicate |-> isdup, new_records |-> handed, component_message |-> compmsg,
     failed |-> ""]

\* The duplicate check made against the table as it is when the insert runs,
\* as if the SELECT and the INSERT were one isolated transaction.
PersistedAtInsert(read, regs) == regs

\* Lines 137-143 and 213-215: the persisted records are those the SELECT
\* returned when it ran (`read'); nothing re-reads the table (`regs' at the
\* insert) between the duplicate check and the bulk insert.
PersistedRecords(read, regs) == read

\* insert_new_records(db_manager, df, entity) with the store's behaviour `fault'.
\* `read' is the regulations table when the SELECT of lines 137-143 ran, `regs'
\* the table when the bulk insert runs.
\* msg is the kind of status message returned:
\*   error           "Error processing entity ..." (the outer except)
\*   no_records      "No records found for entity ..."
\*   no_new          "No new records found ... after duplicate validation"
\*   unique_skipped  "Some records ... were duplicates and skipped"
\*   inserted        "Entity ...: Processed: ... New inserted: ..."
InsertNewRecordsCode(read, regs, comps, df, entity, fault) ==
    IF fault = "query" THEN
        [WriterReturn(regs, comps, 0, "error", 0, 0, 0, 0, <<>>, <<>>, "")
            EXCEPT !.failed = "query"]
    ELSE IF ~(WriterCols \subseteq df.cols) THEN
        WriterReturn(regs, comps, 0, "error", 0, 0, 0, 0, <<>>, <<>>, "")
    ELSE
    LET existing == ExistingRecords(PersistedRecords(read, regs), entity)
        db_df == [i \in 1..Len(existing) |-> NormalizeDb(existing[i].row)]
        raw_entity_df == SelectSeq(df.rows, LAMBDA r : r.entity = S(entity))
        entity_df == [i \in 1..Len(raw_entity_df) |-> NormalizeIncoming(raw_entity_df[i])]
        existing_keys == {DbUniqueKey(db_df[i]) : i \in 1..Len(db_df)}
        is_duplicate ==
            [i \in 1..Len(entity_df) |->
                db_df # <<>> /\ RowUniqueKey(entity_df[i]) \in existing_keys]
        not_dup == {i \in 1..Len(entity_df) : ~is_duplicate[i]}
        after_db == PickIndices(entity_df, not_dup, 1)
        duplicates_found == Len(entity_df) - Len(after_db)
        new_records == DropDuplicates(after_db)
        internal_duplicates == Len(entity_df) - duplicates_found - Len(new_records)
        inserted == BulkInsertRegulations(regs, new_records)
        new_ids == NewestIds(ExistingRecords(inserted, entity), Len(new_records))
        component_failure == ComponentFailure(Len(new_records))
        early(table, msg, handed) ==
            WriterReturn(table, comps, 0, msg, Len(entity_df), Len(db_df),
                         duplicates_found, internal_duplicates, is_duplicate, handed, "")
    IN  IF entity_df = <<>> THEN
            WriterReturn(regs, comps, 0, "no_records", 0, Len(db_df), 0, 0, <<>>, <<>>, "")
        ELSE IF new_records = <<>> THEN early(regs, "no_new", <<>>)
        ELSE IF fault = "insert_unique" THEN
            [early(Rollback(regs, new_records), "unique_skipped", new_records)
                EXCEPT !.failed = fault]
        ELSE IF fault = "insert_other" THEN
            [early(Rollback(regs, new_records), "error", new_records)
                EXCEPT !.failed = fault]
        ELSE IF fault = "ids_query" THEN
            [early(inserted, "error", new_records) EXCEPT !.failed = fault]
        ELSE IF fault = "component" THEN
            [WriterReturn(inserted, comps, component_failure.count, component_failure.msg,
                          Len(entity_df), Len(db_df), duplicates_found, internal_duplicates,
                          is_duplicate, new_records, component_failure.component_message)
                EXCEPT !.failed = fault]
        ELSE
            WriterReturn(inserted, comps \o ComponentRows(new_ids), Len(new_records),
                         "inserted", Len(entity_df), Len(db_df), duplicates_found,
                         internal_duplicates, is_duplicate, new_records, "ok")

\* A run that has the store to itself: the table does not change between its
\* SELECT and its insert.
insert_new_records(regs, comps, df, entity, fault) ==
    InsertNewRecordsCode(regs, regs, comps, df, entity, fault)

---------------------------------------------------------------------------
(* Numbers, dates and patterns in text.                                    *)

Digits == <<"0", "1", "2", "3", "4", "5", "6", "7", "8", "9">>
IsDigit(c) == \E i \in 1..10 : Digits[i] = c
DigitVal(c) == (CHOOSE i \in 1..10 : Digits[i] = c) - 1
AllDigits(s) == s # <<>> /\ \A i \in 1..Len(s) : IsDigit(s[i])

RECURSIVE TextToNat(_)
TextToNat(s) ==
    IF s = <<>> THEN 0
    ELSE 10 * TextToNat(SubSeq(s, 1, Len(s) - 1)) + DigitVal(s[Len(s)])

RECURSIVE NatToText(_)
NatToText(n) ==
    IF n < 10 THEN <<Digits[n + 1]>> ELSE NatToText(n \div 10) \o <<Digits[(n % 10) + 1]>>

\* Zero-padded to two digits, as strftime prints %m and %d.
Pad2(n) == IF n < 10 THEN <<"0">> \o NatToText(n) ELSE NatToText(n)

Upper == <<"A", "B", "C", "D", "E", "F", "G", "H", "I", "J", "K", "L", "M",
           "N", "O", "P", "Q", "R", "S", "T", "U", "V", "W", "X", "Y", "Z">>
Lower == <<"a", "b", "c", "d", "e", "f", "g", "h", "i", "j", "k", "l", "m",
           "n", "o", "p", "q", "r", "s", "t", "u", "v", "w", "x", "y", "z">>

\* str.lower()
LowerChar(c) ==
    IF \E i \in 1..26 : Upper[i] = c THEN Lower[CHOOSE i \in 1..26 : Upper[i] = c] ELSE c
ToLower(s) == [i \in 1..Len(s) |-> LowerChar(s[i])]

\* str.split(sep) for a one-character separator: the parts between separators.
RECURSIVE SplitOn(_, _)
SplitOn(s, sep) ==
    IF \A i \in 1..Len(s) : s[i] # sep THEN <<s>>
    ELSE LET k == CHOOSE i \in 1..Len(s) : s[i] = sep /\ \A j \in 1..(i - 1) : s[j] # sep
         IN  <<SubSeq(s, 1, k - 1)>> \o SplitOn(SubSeq(s, k + 1, Len(s)), sep)

\* str.split(): the words between runs of blanks.
Words(s) == SelectSeq(SplitOn(s, " "), LAMBDA w : w # <<>>)

IsLeap(y) == (y % 4 = 0 /\ y % 100 # 0) \/ y % 400 = 0
DaysIn(y, m) ==
    IF m = 2 THEN (IF IsLeap(y) THEN 29 ELSE 28)
    ELSE IF m \in {4, 6, 9, 11} THEN 30 ELSE 31

\* One or two digits that are not "0" or "00": the shape of %m and %d.
IsDayOrMonthText(s) == AllDigits(s) /\ Len(s) <= 2 /\ TextToNat(s) >= 1
\* One or two digits: the shape of %H, %M and %S.
IsClockText(s) == AllDigits(s) /\ Len(s) <= 2

\* A datetime: tz is "" for a naive one.  NoDate stands for a failed parse and
\* for None.
NoDate == [ok |-> FALSE, ymd |-> <<0, 0, 0>>, hms |-> <<0, 0, 0>>, tz |-> ""]

\* datetime.strptime(word, "%Y-%m-%d")
ParseYmd(word) ==
    LET Checked(y, m, d) ==
            IF y >= 1 /\ m <= 12 /\ d <= DaysIn(y, m)
            THEN [ok |-> TRUE, ymd |-> <<y, m, d>>, hms |-> <<0, 0, 0>>, tz |-> ""]
            ELSE NoDate
        Parts(p) ==
            IF /\ Len(p) = 3
               /\ AllDigits(p[1]) /\ Len(p[1]) = 4
               /\ IsDayOrMonthText(p[2])
               /\ IsDayOrMonthText(p[3])
            THEN Checked(TextToNat(p[1]), TextToNat(p[2]), TextToNat(p[3]))
            ELSE NoDate
    IN  Parts(SplitOn(word, "-"))

\* The %H:%M:%S part.
ParseHms(word) ==
    LET Checked(h, m, sec) ==
            IF h <= 23 /\ m <= 59 /\ sec <= 59
            THEN [ok |-> TRUE, ymd |-> <<0, 0, 0>>, hms |-> <<h, m, sec>>, tz |-> ""]
            ELSE NoDate
        Parts(p) ==
            IF Len(p) = 3 /\ IsClockText(p[1]) /\ IsClockText(p[2]) /\ IsClockText(p[3])
            THEN Checked(TextToNat(p[1]), TextToNat(p[2]), TextToNat(p[3]))
            ELSE NoDate
    IN  Parts(SplitOn(word, ":"))

\* datetime.strptime(text, "%Y-%m-%d %H:%M:%S"): a date, blanks, a time, and
\* nothing before or after.
ParseYmdHms(text) ==
    LET Both(d, t) ==
            IF d.ok /\ t.ok THEN [ok |-> TRUE, ymd |-> d.ymd, hms |-> t.hms, tz |-> ""]
            ELSE NoDate
        Parts(w) ==
            IF Len(w) = 2 /\ text # <<>> /\ Head(text) # " " /\ text[Len(text)] # " "
            THEN Both(ParseYmd(w[1]), ParseHms(w[2]))
            ELSE NoDate
    IN  Parts(Words(text))

\* dt.strftime("%Y-%m-%d")
FormatYmd(d) ==
    LET y == NatToText(d.ymd[1])
        y4 == [i \in 1..(4 - Len(y)) |-> "0"] \o y
    IN  y4 \o <<"-">> \o Pad2(d.ymd[2]) \o <<"-">> \o Pad2(d.ymd[3])

\* a > b for two naive datetimes.
DateAfter(a, b) ==
    LET x == a.ymd \o a.hms
        y == b.ymd \o b.hms
    IN  \E i \in 1..6 : x[i] > y[i] /\ \A j \in 1..(i - 1) : x[j] = y[j]

\* re.match of a sequence of one-character classes ("\\d" is a digit, any
\* other entry is that character) at the start of the text.
MatchPrefix(classes, text) ==
    /\ Len(text) >= Len(classes)
    /\ \A i \in 1..Len(classes) :
          IF classes[i] = "\\d" THEN IsDigit(text[i]) ELSE text[i] = classes[i]

YmdClasses == <<"\\d", "\\d", "\\d", "\\d", "-", "\\d", "\\d", "-", "\\d", "\\d">>
HmsClasses == <<"\\d", "\\d", ":", "\\d", "\\d", ":", "\\d", "\\d">>
HttpPrefix == <<"h", "t", "t", "p", ":", "/", "/">>
HttpsPrefix == <<"h", "t", "t", "p", "s", ":", "/", "/">>

\* Series.str.match(regex) for the patterns the rulesets use; "" is no pattern.
RegexMatch(regex, text) ==
    CASE regex = ".+" -> Len(text) >= 1
      [] regex = "^\\d{4}-\\d{2}-\\d{2}" -> MatchPrefix(YmdClasses, text)
      [] regex = "^https?://.+" ->
            \/ MatchPrefix(HttpPrefix, text) /\ Len(text) > Len(HttpPrefix)
            \/ MatchPrefix(HttpsPrefix, text) /\ Len(text) > Len(HttpsPrefix)
      [] regex = "^\\d{4}-\\d{2}-\\d{2} \\d{2}:\\d{2}:\\d{2}$" ->
            MatchPrefix(YmdClasses \o <<" ">> \o HmsClasses, text) /\ Len(text) = 19

---------------------------------------------------------------------------
(* The validator: src/src/validacion.py and src/src/validaciones.py.       *)

I(text) == [t |-> "int", v |-> text]
F(text) == [t |-> "float", v |-> text]
\* A Python bool; v is what str() prints.
B(b) == [t |-> "bool", v |-> IF b THEN <<"T", "r", "u", "e">> ELSE <<"F", "a", "l", "s", "e">>]

\* What int(text) accepts: an optional sign and decimal digits.
IntDigits(text) == IF text # <<>> /\ Head(text) \in {"+", "-"} THEN Tail(text) ELSE text
IsIntText(text) == AllDigits(IntDigits(text))
\* str(int(text))
IntCanon(text) ==
    LET n == TextToNat(IntDigits(text))
    IN  (IF Head(text) = "-" /\ n # 0 THEN <<"-">> ELSE <<>>) \o NatToText(n)

\* What float(text) accepts here: an integer, or digits "." digits.
IsFloatText(text) ==
    \/ IsIntText(text)
    \/ LET p == SplitOn(IntDigits(text), ".")
       IN  Len(p) = 2 /\ AllDigits(p[1]) /\ AllDigits(p[2])

RECURSIVE DropTrailingZeros(_)
DropTrailingZeros(s) ==
    IF Len(s) > 1 /\ s[Len(s)] = "0" THEN DropTrailingZeros(SubSeq(s, 1, Len(s) - 1)) ELSE s

\* str(float(text))
FloatCanon(text) ==
    LET p == SplitOn(IntDigits(text), ".")
        whole == NatToText(TextToNat(p[1]))
        frac == IF Len(p) = 2 THEN DropTrailingZeros(p[2]) ELSE <<"0">>
        zero == TextToNat(p[1]) = 0 /\ TextToNat(frac) = 0
    IN  (IF Head(text) = "-" /\ ~zero THEN <<"-">> ELSE <<>>) \o whole \o <<".">> \o frac

Truthy == {<<"t", "r", "u", "e">>, <<"1">>, <<"t">>, <<"y", "e", "s">>, <<"s", "i">>, <<"s", "í">>}
Falsy == {<<"f", "a", "l", "s", "e">>, <<"0">>, <<"f">>, <<"n", "o">>}

Valid(c) == [cell |-> c, valid |-> TRUE]
Invalid == [cell |-> NULL, valid |-> FALSE]

\* _coerce_type, for one value of the series.
CoerceType(c, expected_type) ==
    LET Dated(ymd, full) ==
            IF ymd.ok THEN Valid(S(FormatYmd(ymd)))
            ELSE IF full.ok THEN Valid(S(FormatYmd(full)))
            ELSE Invalid
        Typed(text) ==
            CASE expected_type = "string" ->
                    IF text = <<>> THEN Invalid ELSE Valid(S(text))
              [] expected_type = "integer" ->
                    IF IsIntText(text) THEN Valid(I(IntCanon(text))) ELSE Invalid
              [] expected_type = "float" ->
                    IF IsFloatText(text) THEN Valid(F(FloatCanon(text))) ELSE Invalid
              [] expected_type = "boolean" ->
                    IF c.t = "bool" THEN Valid(c)
                    ELSE IF ToLower(text) \in Truthy THEN Valid(B(TRUE))
                    ELSE IF ToLower(text) \in Falsy THEN Valid(B(FALSE))
                    ELSE Invalid
              [] expected_type = "date" ->
                    IF c.t = "datetime" THEN Valid(S(SubSeq(c.v, 1, 10)))
                    ELSE Dated(ParseYmd(text), ParseYmdHms(text))
              [] OTHER -> Valid(c)
    IN  IF IsNull(c) THEN Invalid ELSE Typed(Strip(AsStr(c)))

\* A rule of the ruleset; regex "" and max_length -1 stand for an absent key.
Rule(type, regex, required, max_length) ==
    [type |-> type, regex |-> regex, required |-> required, max_length |-> max_length]

\* Lines 131-158: the type, regex and max_length checks of one cell; each
\* failed check nulls the cell and narrows the validity mask.
ValidateCell(c, config) ==
    LET Lengthed(matched, valid) ==
            IF \/ config.max_length = -1
               \/ Len(AsStr(FillNa(matched.cell))) <= config.max_length
            THEN [cell |-> matched.cell, valid |-> valid]
            ELSE Invalid
        Matched(typed, re_ok) ==
            Lengthed(IF re_ok THEN typed ELSE Invalid, typed.valid /\ re_ok)
        Typed(typed) ==
            Matched(typed, \/ config.regex = ""
                           \/ RegexMatch(config.regex, AsStr(FillNa(typed.cell))))
    IN  Typed(IF config.type # "" THEN CoerceType(c, config.type) ELSE Valid(c))

\* The cell of `field' in the cleaned frame: fields without a rule pass through,
\* a ruled field that is no column of the frame is created null.
CleanCell(df, rules, row, field) ==
    IF field \notin DOMAIN rules THEN Valid(row[field])
    ELSE IF field \notin df.cols THEN Invalid
    ELSE ValidateCell(row[field], rules[field])

Count(set) == Cardinality(set)

\* DataFrame.empty: one of the two axes has length 0.
FrameEmpty(df) == df.rows = <<>> \/ df.cols = {}

\* apply_validation(df, rules["fields"]); checked[i][f] is the checked cell of
\* field f in row i.
ApplyValidationCode(df, rules) ==
    IF FrameEmpty(df) THEN
        [df |-> df,
         stats |-> [rows_received |-> 0, rows_discarded |-> 0, rows_valid |-> 0,
                    invalid_cells |-> <<>>]]
    ELSE
    LET cols == df.cols \cup DOMAIN rules
        n == Len(df.rows)
        Cleaned(checked) ==
            LET df_clean == [i \in 1..n |-> [f \in cols |-> checked[i][f].cell]]
                invalid_count(f) == Count({i \in 1..n : ~checked[i][f].valid})
                required_fields == {f \in DOMAIN rules : rules[f].required}
                kept == {i \in 1..n : \A f \in required_fields : ~IsNull(checked[i][f].cell)}
                Stats(out) ==
                    [df |-> [cols |-> cols, rows |-> out],
                     stats |-> [rows_received |-> n, rows_discarded |-> n - Len(out),
                                rows_valid |-> Len(out),
                                invalid_cells |->
                                    [f \in {g \in DOMAIN rules : invalid_count(g) > 0} |->
                                        invalid_count(f)]]]
            IN  Stats(PickIndices(df_clean, kept, 1))
    IN  Cleaned([i \in 1..n |-> [f \in cols |-> CleanCell(df, rules, df.rows[i], f)]])

apply_validation(df, rules) == ApplyValidationCode(df, rules)

TITLE_MAX_LENGTH == 65

\* validaciones.DEFAULT_RULES
DEFAULT_RULES ==
    [title |-> Rule("string", ".+", TRUE, TITLE_MAX_LENGTH),
     created_at |-> Rule("date", "^\\d{4}-\\d{2}-\\d{2}", TRUE, -1),
     external_link |-> Rule("string", "^https?://.+", TRUE, -1),
     summary |-> Rule("string", "", FALSE, -1),
     rtype_id |-> Rule("integer", "", TRUE, -1),
     classification_id |-> Rule("integer", "", TRUE, -1),
     is_active |-> Rule("boolean", "", TRUE, -1),
     update_at |-> Rule("string", "^\\d{4}-\\d{2}-\\d{2} \\d{2}:\\d{2}:\\d{2}$", TRUE, -1)]

---------------------------------------------------------------------------
(* The writer's inputs: sample texts and the rows batches are drawn from.  *)

TitleA == <<"A">>
TitleB == <<"B">>
Date1 == <<"2", "0", "2", "4", "-", "0", "1", "-", "0", "1">>
Date2 == <<"2", "0", "2", "4", "-", "0", "1", "-", "0", "2">>
LinkX == <<"h", "t", "t", "p", ":", "/", "/", "x">>
LinkY == <<"h", "t", "t", "p", ":", "/", "/", "y">>

WRow(title, created_at, entity, link) ==
    [title |-> title, created_at |-> S(created_at), entity |-> S(entity), external_link |-> link]

\* ("A", 2024-01-01, http://x)
RowA == WRow(S(TitleA), Date1, ENTITY_VALUE, S(LinkX))
\* the same regulation with an untrimmed title
RowASpace == WRow(S(<<" ">> \o TitleA), Date1, ENTITY_VALUE, S(LinkX))
\* ("B", 2024-01-02, no link)
RowB == WRow(S(TitleB), Date2, ENTITY_VALUE, NULL)
\* ("A", 2024-01-01, "http://x|2024-01-01|http://y")
RowBarLink == WRow(S(TitleA), Date1, ENTITY_VALUE, S(LinkX \o <<"|">> \o Date1 \o <<"|">> \o LinkY))
\* ("A|2024-01-01|http://x", 2024-01-01, "http://y")
RowBarTitle == WRow(S(TitleA \o <<"|">> \o Date1 \o <<"|">> \o LinkX), Date1, ENTITY_VALUE, S(LinkY))
\* a record of another entity
RowOther == WRow(S(TitleA), Date1, OtherEntity, S(LinkX))

WriterRows == {RowA, RowASpace, RowB, RowBarLink, RowBarTitle, RowOther}

Frame(cols, rows) == [cols |-> cols, rows |-> rows]

\* A frame without the entity column: df["entity"] raises KeyError.
NoEntityFrame == Frame({"title"}, <<[title |-> S(TitleA)]>>)

\* A batch with a persisted-or-new record, a new record and its repetition
\* with an untrimmed title.
MixedFrame == Frame(WriterCols, <<RowB, RowA, RowASpace>>)

Batches ==
    {Frame(WriterCols, rows) : rows \in SeqsUpTo(WriterRows, MaxBatch)}
        \cup {NoEntityFrame, MixedFrame}

\* The stores a run can start from: any rows, persisted by this writer or not
\* (untrimmed titles, NULL links, rows of other entities, repeated rows).
StoreRows == {RowA, RowASpace, RowB, RowBarLink, RowOther}

InitStores ==
    {[i \in 1..Len(rows) |-> [id |-> i, row |-> rows[i]]] : rows \in SeqsUpTo(StoreRows, MaxInit)}

---------------------------------------------------------------------------
(* Writer runs against the store, one at a time.                           *)

\* What a run returned and computed, without the tables.
Outcome(r) == [f \in DOMAIN r \ {"regulations", "components"} |-> r[f]]

NoRun == [df |-> Frame({}, <<>>), before |-> <<>>, comps_before |-> <<>>,
          ret |-> Outcome(WriterReturn(<<>>, <<>>, 0, "none", 0, 0, 0, 0, <<>>, <<>>, ""))]

\* A run that returned without any store error.
Succeeded(msg) == msg \in {"no_records", "no_new", "inserted"}

Idle == [pc |-> "off"]

WriterInit ==
    /\ regulations \in InitStores
    /\ components = <<>>
    /\ wr = NoRun
    /\ wprev = [succeeded |-> FALSE, count |-> 0, rerun |-> FALSE]
    /\ runs = 0
    /\ xin = <<>> /\ xout = <<>> /\ cw = <<>>
    /\ vin = <<>> /\ vout = <<>> /\ pin = <<>> /\ pout = <<>> /\ pl = Idle

\* One call insert_new_records(db_manager, df, ENTITY_VALUE); `again' tells
\* whether df is the batch of the run before.
Run(df, fault, again) ==
    /\ LET r == insert_new_records(regulations, components, df, ENTITY_VALUE, fault)
       IN  /\ regulations' = r.regulations
           /\ components' = r.components
           /\ wr' = [df |-> df, before |-> regulations,
                     comps_before |-> components, ret |-> Outcome(r)]
    /\ wprev' = [succeeded |-> Succeeded(wr.ret.msg), count |-> wr.ret.count,
                 rerun |-> again]
    /\ runs' = runs + 1
    /\ UNCHANGED <<vin, vout, pin, pout, pl, xin, xout, cw>>

\* The first run: any batch against any store.
Write(df, fault) == runs = 0 /\ Run(df, fault, FALSE)

\* The same batch is handed to the writer once more (the DAG is triggered
\* again over an unchanged site, or the write task is retried).
Rerun(fault) == runs >= 1 /\ runs <= MaxReruns /\ Run(wr.df, fault, TRUE)

\* WriterInit ranges over every store, so a later run with another batch is
\* a first run from another initial store.
WriterNext ==
    \/ \E df \in Batches, fault \in Faults : Write(df, fault)
    \/ \E fault \in Faults : Rerun(fault)

WriterSpec == WriterInit /\ [][WriterNext]_vars

---------------------------------------------------------------------------
(* The validator's inputs.                                                 *)

Time1 == <<"1", "0", ":", "0", "0", ":", "0", "0">>
Stamp1 == Date1 \o <<" ">> \o Time1
SlashDate == <<"1", "5", "/", "0", "3", "/", "2", "0", "2", "4">>
FtpLink == <<"f", "t", "p", ":", "/", "/", "x">>
\* A title one character longer than the longest the default ruleset allows.
LongTitle == [i \in 1..(TITLE_MAX_LENGTH + 1) |-> "a"]

\* The columns of a record built by scrape_page.
ScrapeCols == {"created_at", "update_at", "is_active", "title", "gtype", "entity",
               "external_link", "rtype_id", "summary", "classification_id"}

\* A record as scrape_page builds it: every field valid.
GoodRecord ==
    [created_at |-> S(Date1), update_at |-> S(Stamp1), is_active |-> B(TRUE),
     title |-> S(TitleA), gtype |-> S(<<"l", "i", "n", "k">>),
     entity |-> S(ENTITY_VALUE), external_link |-> S(LinkX), rtype_id |-> I(<<"1", "4">>),
     summary |-> S(<<"R", "e", "s">>), classification_id |-> I(<<"1", "3">>)]

\* Records that differ from GoodRecord in one field.
VRows ==
    {GoodRecord,
     [GoodRecord EXCEPT !.title = S(<<" ">> \o TitleB \o <<" ">>)],
     [GoodRecord EXCEPT !.title = S(LongTitle)],
     [GoodRecord EXCEPT !.created_at = S(SlashDate)],
     [GoodRecord EXCEPT !.created_at = S(Stamp1)],
     [GoodRecord EXCEPT !.external_link = S(FtpLink)],
     [GoodRecord EXCEPT !.summary = NULL],
     [GoodRecord EXCEPT !.rtype_id = S(<<"x", "1">>)],
     [GoodRecord EXCEPT !.is_active = S(<<"S", "I">>)],
     [GoodRecord EXCEPT !.update_at = S(Date1)]}

\* Rows with the single column title.
TitleRows ==
    {[title |-> S(<<"a", "b", "c", "d", "e", "f">>)], [title |-> S(<<"a", "b", "c">>)],
     [title |-> S(<<" ">>)], [title |-> NULL]}

\* A row of a frame that has an index and no columns.
NoCells == [f \in {} |-> NULL]

VFrames ==
    {Frame(ScrapeCols, rows) : rows \in SeqsUpTo(VRows, MaxVRows)}
        \cup {Frame({"title"}, rows) : rows \in SeqsUpTo(TitleRows, MaxVRows)}
        \cup {Frame({}, rows) : rows \in SeqsUpTo({NoCells}, MaxVRows)}

\* {title: {type: string, required: true, max_length: 5}}
ScenarioRules == [title |-> Rule("string", "", TRUE, 5)]

\* A required field with a pattern and no type, an optional field with a
\* pattern, and a required field of a type _coerce_type does not know.
LooseRules ==
    [title |-> Rule("", ".+", TRUE, -1),
     summary |-> Rule("string", "^https?://.+", FALSE, -1),
     rtype_id |-> Rule("uuid", "", TRUE, -1)]

\* {"fields": {}}
NoRules == [f \in {} |-> Rule("", "", FALSE, -1)]

Rulesets == {DEFAULT_RULES, ScenarioRules, LooseRules, NoRules}

---------------------------------------------------------------------------
(* One validation pass over a frame.                                       *)

NotValidated == [done |-> FALSE, df |-> Frame({}, <<>>),
                 stats |-> [rows_received |-> 0, rows_discarded |-> 0, rows_valid |-> 0,
                            invalid_cells |-> <<>>]]

ValidateInit ==
    /\ vin \in [df : VFrames, rules : Rulesets]
    /\ vout = NotValidated
    /\ regulations = <<>> /\ components = <<>>
    /\ wr = NoRun /\ wprev = [succeeded |-> FALSE, count |-> 0, rerun |-> FALSE] /\ runs = 0
    /\ xin = <<>> /\ xout = <<>> /\ cw = <<>>
    /\ pin = <<>> /\ pout = <<>> /\ pl = Idle

\* validated_df, stats = apply_validation(df, rules)
Validate ==
    /\ ~vout.done
    /\ LET Returns(r) == vout' = [done |-> TRUE, df |-> r.df, stats |-> r.stats]
       IN  Returns(apply_validation(vin.df, vin.rules))
    /\ UNCHANGED <<regulations, components, wr, wprev, runs, xin, xout, cw, vin, pin, pout, pl>>

ValidateNext == Validate

ValidateSpec == ValidateInit /\ [][ValidateNext]_vars

---------------------------------------------------------------------------
(* The change probe: src/src/extraccion.py.                                *)

\* The pages the probe reads at most: min(3, num_pages_to_scrape).
PROBE_PAGES == 3

\* is_valid_created_at
is_valid_created_at(c) ==
    /\ ~IsNull(c)
    /\ c.v # <<>>
    /\ (c.t = "str" => Strip(c.v) # <<>>)
    /\ c.t \in {"str", "datetime"}

\* normalize_datetime: drops the timezone.
normalize_datetime(dt) == [dt EXCEPT !.tz = ""]

\* Lines 307-314: the two strptime attempts on a record's created_at.
ParseWebDate(text) ==
    LET Second(words) == IF words # <<>> THEN ParseYmd(words[1]) ELSE NoDate
        First(full) == IF full.ok THEN full ELSE Second(Words(text))
    IN  First(ParseYmdHms(text))

\* Lines 302-320, for one record: whether it makes the probe return True.
RecordIsNew(record, latest_db_date) ==
    LET created_at_val == record.created_at
        Newer(web_date) ==
            web_date.ok /\ (~latest_db_date.ok \/ DateAfter(web_date, latest_db_date))
    IN  /\ is_valid_created_at(created_at_val)
        /\ created_at_val.t = "str"
        /\ Newer(normalize_datetime(ParseWebDate(created_at_val.v)))

\* The outer handler re-raising instead of answering.
ProbeExceptPropagates == [raised |-> TRUE, value |-> FALSE]

\* Lines 329-331: except Exception: return True
ProbeExcept == [raised |-> FALSE, value |-> TRUE]

\* check_for_new_content(fetch_latest_created_at, num_pages_to_check), where
\* `latest' is what the accessor did ([kind, value]: it raised, returned None
\* or returned a datetime) and pages[p] is what scrape_page(p - 1) returned.
CheckForNewContentCode(latest, pages, num_pages_to_check) ==
    IF latest.kind = "raise" THEN ProbeExcept
    ELSE LET latest_db_date == normalize_datetime(latest.value)
         IN  [raised |-> FALSE,
              value |-> \E p \in 1..num_pages_to_check : \E i \in 1..Len(pages[p]) :
                            RecordIsNew(pages[p][i], latest_db_date)]

check_for_new_content(latest, pages, num_pages_to_check) ==
    CheckForNewContentCode(latest, pages, num_pages_to_check)

---------------------------------------------------------------------------
(* The probe's inputs.                                                     *)

DateJunk == Date2 \o <<" ", "f", "o", "o">>

WebRecord(created_at) == [GoodRecord EXCEPT !.created_at = S(created_at)]

\* Records a page can hold, by created_at: the persisted date, a later date,
\* the persisted date with a time, a text strptime rejects, and a later date
\* followed by other text.
WebRecords ==
    {WebRecord(Date1), WebRecord(Date2), WebRecord(Stamp1), WebRecord(SlashDate),
     WebRecord(DateJunk)}

\* The ways of laying the records of a listing out over `pages' pages.
RECURSIVE Paginations(_, _)
Paginations(records, pages) ==
    IF pages = 1 THEN {<<records>>}
    ELSE UNION {{<<SubSeq(records, 1, a)>> \o rest :
                    rest \in Paginations(SubSeq(records, a + 1, Len(records)), pages - 1)} :
                a \in 0..Len(records)}

\* The sites of `pages' pages that hold at most `rows' of the records.
SitesOf(records, pages, rows) ==
    UNION {Paginations(listing, pages) : listing \in SeqsUpTo(records, rows)}

\* What the first PROBE_PAGES pages return: a failed fetch is an empty page.
ProbeSites == SitesOf(WebRecords, PROBE_PAGES, MaxSiteRows)

AccessorReturns(value) == [kind |-> "value", value |-> value]
AccessorNone == [kind |-> "none", value |-> NoDate]
AccessorRaises == [kind |-> "raise", value |-> NoDate]

\* What the latest-date accessor can do: raise, return None, or return a
\* datetime (naive or timezone-aware).
Accessors ==
    {AccessorRaises, AccessorNone,
     AccessorReturns(ParseYmd(Date1)),
     AccessorReturns(ParseYmd(Date2)),
     AccessorReturns([ParseYmdHms(Stamp1) EXCEPT !.tz = "UTC"])}

---------------------------------------------------------------------------
(* One run of the probe.                                                   *)

ProbeInit ==
    /\ pin \in [latest : Accessors, pages : ProbeSites, n : 1..PROBE_PAGES]
    /\ pout = [done |-> FALSE, raised |-> FALSE, result |-> FALSE]
    /\ regulations = <<>> /\ components = <<>>
    /\ wr = NoRun /\ wprev = [succeeded |-> FALSE, count |-> 0, rerun |-> FALSE] /\ runs = 0
    /\ xin = <<>> /\ xout = <<>> /\ cw = <<>>
    /\ vin = <<>> /\ vout = <<>> /\ pl = Idle

\* has_new_content = check_for_new_content(accessor, n)
Probe ==
    /\ ~pout.done
    /\ LET Returns(r) == pout' = [done |-> TRUE, raised |-> r.raised, result |-> r.value]
       IN  Returns(check_for_new_content(pin.latest, pin.pages, pin.n))
    /\ UNCHANGED <<regulations, components, wr, wprev, runs, xin, xout, cw, vin, vout, pin, pl>>

ProbeNext == Probe

ProbeSpec == ProbeInit /\ [][ProbeNext]_vars

---------------------------------------------------------------------------
(* The two entry points: src/lambda.py and src/dags/ani_regulations_dag.py. *)

\* num_pages_to_scrape when the option is not given.
DEFAULT_PAGES == 9
\* DEFAULT_ARGS["retries"]
RETRIES == 1

Max(a, b) == IF a >= b THEN a ELSE b
Min(a, b) == IF a <= b THEN a ELSE b

\* An option the event does not carry.
Absent == [t |-> "absent", v |-> <<>>]

SignedVal(text) ==
    IF Head(text) = "-" THEN 0 - TextToNat(IntDigits(text)) ELSE TextToNat(IntDigits(text))

\* int(value); ok is FALSE where int() raises (ValueError, TypeError).
IntOf(c) ==
    CASE c.t = "int" -> [ok |-> TRUE, n |-> SignedVal(c.v)]
      [] c.t = "bool" -> [ok |-> TRUE, n |-> IF c = B(TRUE) THEN 1 ELSE 0]
      [] c.t = "str" ->
            IF IsIntText(Strip(c.v)) THEN [ok |-> TRUE, n |-> SignedVal(Strip(c.v))]
            ELSE [ok |-> FALSE, n |-> 0]
      [] c.t = "null" -> [ok |-> FALSE, n |-> 0]

\* bool(value)
BoolOf(c) ==
    CASE c.t = "bool" -> c = B(TRUE)
      [] c.t = "int" -> SignedVal(c.v) # 0
      [] c.t = "str" -> c.v # <<>>
      [] c.t = "null" -> FALSE

\* lambda.py lines 20-22: the options of an event; a missing or empty event
\* gives the defaults.  requested is the page count before clamping.
Options(event) ==
    LET truthy == event.given /\ (event.num_pages_to_scrape # Absent \/ event.force_scrape # Absent)
        pages == IF truthy /\ event.num_pages_to_scrape # Absent
                 THEN IntOf(event.num_pages_to_scrape)
                 ELSE [ok |-> TRUE, n |-> DEFAULT_PAGES]
        force == IF truthy /\ event.force_scrape # Absent
                 THEN BoolOf(event.force_scrape) ELSE FALSE
    IN  [ok |-> pages.ok, requested |-> pages.n,
         num_pages_to_scrape |-> Max(pages.n, 1), force_scrape |-> force]

\* ani_regulations_dag.py lines 35-38: the same options, read from dag_run.conf.
DagOptions(conf) == Options(conf)

\* The probe reading PROBE_PAGES pages whatever the crawl's page count is.
ProbePageCountFixed(num_pages_to_scrape) == PROBE_PAGES

\* min(3, num_pages_to_scrape)
ProbePageCount(num_pages_to_scrape) == Min(PROBE_PAGES, num_pages_to_scrape)

\* scrape_page(page_num): the records of one page of the site; a page the
\* site does not have, or that cannot be fetched, gives no records.
scrape_page(site, page_num) ==
    IF page_num + 1 \in 1..Len(site) THEN site[page_num + 1] ELSE <<>>

\* scrape_recent_pages(start_page, end_page)
RECURSIVE scrape_recent_pages(_, _, _)
scrape_recent_pages(site, start_page, end_page) ==
    IF start_page > end_page THEN <<>>
    ELSE scrape_page(site, start_page) \o scrape_recent_pages(site, start_page + 1, end_page)

\* The two strptime attempts of fetch_latest_created_at on a stored text.
ParseStoredDate(text) ==
    LET Second(words) == IF words # <<>> THEN ParseYmd(words[1]) ELSE NoDate
        First(full) == IF full.ok THEN full ELSE Second(Words(text))
    IN  First(ParseYmdHms(text))

\* escritura.fetch_latest_created_at: SELECT MAX(created_at) ... WHERE entity = %s
fetch_latest_created_at(regs, entity) ==
    LET ex == ExistingRecords(regs, entity)
        dates == {d \in {ParseStoredDate(ex[i].row.created_at.v) :
                            i \in {j \in 1..Len(ex) : ~IsNull(ex[j].row.created_at)}} : d.ok}
    IN  IF dates = {} THEN AccessorNone
        ELSE AccessorReturns(CHOOSE d \in dates : \A e \in dates : ~DateAfter(e, d))

\* What the store does when the probe asks for the latest date.
ProbeDb == {"ok", "down"}
\* What the store does when the writer is reached: the connection cannot be
\* opened, or one of the writer's faults.
WriteDb == Faults \cup {"down"}

\* _fetch_latest_created_at: opens its own connection; ConnectionError and
\* query errors leave the accessor by raising.
FetchLatest(regs, probe_db) ==
    IF probe_db # "ok" THEN AccessorRaises ELSE fetch_latest_created_at(regs, ENTITY_VALUE)

\* A session of the accessor that deletes the newest row it read.
FetchLatestSessionDeletes(regs) == SubSeq(regs, 1, Len(regs) - 1)

\* The regulations table after the session of _fetch_latest_created_at: the
\* session executes one SELECT and is closed without a commit.
FetchLatestSession(regs) == regs

\* The regulations table after the probe stage of a run with the options
\* `opts': the accessor's session is opened unless the options do not parse,
\* the scrape is forced or the connection cannot be opened.
ProbeStage(opts, regs, probe_db) ==
    IF opts.ok /\ ~opts.force_scrape /\ probe_db = "ok" THEN FetchLatestSession(regs) ELSE regs

\* The probe over the first k pages of the site.
ProbeSite(site, regs, probe_db, k) ==
    check_for_new_content(FetchLatest(regs, probe_db),
                          [p \in 1..k |-> scrape_page(site, p - 1)], k)

\* pd.DataFrame(records)
DataFrame(records) ==
    Frame(UNION {DOMAIN records[i] : i \in 1..Len(records)}, records)

\* validaciones.load_rules()["fields"] without a rules file.
load_rules == DEFAULT_RULES

\* A stage that is handed nothing going on regardless.
NoDataNever(records) == FALSE

\* `if not all_normas_data', `if not records'
NoData(records) == records = <<>>

\* A step of a run, as the run made it: the probe over `pages' pages and its
\* answer, the scrape of pages 0..pages-1 and the records it found, the
\* validation and the rows it kept, the opening of the writer's connection
\* and whether it opened, the writer and the rows it inserted.
Ev(stage, pages, records, result) ==
    [stage |-> stage, pages |-> pages, records |-> records, result |-> result]

\* The handler letting the exception out.
LambdaExceptPropagates(exc) ==
    [raised |-> TRUE, statusCode |-> 0, body |-> [message |-> exc, success |-> FALSE]]

\* lambda.py lines 107-113
LambdaExcept(exc) ==
    [raised |-> FALSE, statusCode |-> 500, body |-> [message |-> exc, success |-> FALSE]]

Returned(body) == [raised |-> FALSE, statusCode |-> 200, body |-> body]

NoWrite == NoRun.ret

\* lambda_handler(event, context) over a site and a store.  The steps are in
\* the order of the code, each one handed what the step before it computed.
LambdaHandlerCode(event, site, regs, comps, probe_db, write_db) ==
    LET table == ProbeStage(Options(event), regs, probe_db)
        out(response, trace) ==
            [response |-> response, trace |-> trace, regulations |-> table, components |-> comps,
             write_db |-> "none", ret |-> NoWrite]
        \* lines 94-105
        Written(opts, validated, records_scraped, records_validated, w) ==
            [response |->
                Returned([message |-> w.msg, records_scraped |-> records_scraped,
                          records_validated |-> records_validated,
                          records_inserted |-> w.count,
                          content_check |-> IF opts.force_scrape THEN "forced_scrape"
                                            ELSE "new_content_found",
                          success |-> TRUE]),
             trace |-> validated \o <<Ev("connect", 0, 0, TRUE), Ev("write", 0, w.count, TRUE)>>,
             regulations |-> w.regulations, components |-> w.components,
             write_db |-> write_db, ret |-> Outcome(w)]
        \* lines 72-92
        Validated(opts, scraped, df_normas, v) ==
            LET validated == scraped \o <<Ev("validate", 0, Len(v.df.rows), TRUE)>>
            IN  IF FrameEmpty(v.df) THEN
                    out(Returned([message |-> "all_discarded",
                                  records_scraped |-> Len(df_normas.rows),
                                  records_validated |-> 0,
                                  records_inserted |-> 0, success |-> TRUE]), validated)
                ELSE IF write_db = "down" THEN
                    [out(LambdaExcept("Could not establish database connection"),
                         validated \o <<Ev("connect", 0, 0, FALSE)>>)
                        EXCEPT !.write_db = "down"]
                ELSE Written(opts, validated, Len(df_normas.rows), Len(v.df.rows),
                             insert_new_records(table, comps, v.df, ENTITY_VALUE, write_db))
        \* lines 51-69
        Scraped(opts, probed, all_normas_data) ==
            LET scraped == probed \o <<Ev("scrape", opts.num_pages_to_scrape,
                                          Len(all_normas_data), TRUE)>>
                df_normas == DataFrame(all_normas_data)
            IN  IF NoData(all_normas_data) THEN
                    out(Returned([message |-> "no_data", records_scraped |-> 0,
                                  records_inserted |-> 0, success |-> TRUE]), scraped)
                ELSE Validated(opts, scraped, df_normas, apply_validation(df_normas, load_rules))
        \* lines 45-49
        Scrape(opts, probed) ==
            Scraped(opts, probed, scrape_recent_pages(site, 0, opts.num_pages_to_scrape - 1))
        \* lines 31-43
        Probed(opts, k, has_new_content) ==
            IF has_new_content.raised THEN out(LambdaExcept("probe"), <<>>)
            ELSE IF ~has_new_content.value THEN
                out(Returned([message |-> "no_new_content", records_scraped |-> 0,
                              records_inserted |-> 0, content_check |-> "no_new_content",
                              success |-> TRUE]),
                    <<Ev("probe", k, 0, FALSE)>>)
            ELSE Scrape(opts, <<Ev("probe", k, 0, TRUE)>>)
        \* lines 26-30
        RunProbe(opts, k) == Probed(opts, k, ProbeSite(site, regs, probe_db, k))
        \* lines 20-26
        Parsed(opts) ==
            IF ~opts.ok THEN out(LambdaExcept("invalid literal for int()"), <<>>)
            ELSE IF opts.force_scrape THEN Scrape(opts, <<>>)
            ELSE RunProbe(opts, ProbePageCount(opts.num_pages_to_scrape))
    IN  Parsed(Options(event))

lambda_handler(event, site, regs, comps, probe_db, write_db) ==
    LambdaHandlerCode(event, site, regs, comps, probe_db, write_db)

\* What a task callable did: it returned `value', raised AirflowSkipException
\* ("skipped") or raised anything else ("failed").
TaskResult(outcome, value, trace) == [outcome |-> outcome, value |-> value, trace |-> trace]

\* extract_task
ExtractTaskCode(conf, site, regs, probe_db) ==
    LET Scraped(opts, probed, records) ==
            TaskResult("success", records,
                       probed \o <<Ev("scrape", opts.num_pages_to_scrape, Len(records), TRUE)>>)
        Scrape(opts, probed) ==
            Scraped(opts, probed, scrape_recent_pages(site, 0, opts.num_pages_to_scrape - 1))
        Probed(opts, k, has_new_content) ==
            IF has_new_content.raised THEN TaskResult("failed", <<>>, <<>>)
            ELSE IF ~has_new_content.value THEN
                TaskResult("skipped", <<>>, <<Ev("probe", k, 0, FALSE)>>)
            ELSE Scrape(opts, <<Ev("probe", k, 0, TRUE)>>)
        RunProbe(opts, k) == Probed(opts, k, ProbeSite(site, regs, probe_db, k))
        Parsed(opts) ==
            IF ~opts.ok THEN TaskResult("failed", <<>>, <<>>)
            ELSE IF opts.force_scrape THEN Scrape(opts, <<>>)
            ELSE RunProbe(opts, ProbePageCount(opts.num_pages_to_scrape))
    IN  Parsed(DagOptions(conf))

\* validate_task, on the records pulled from extract
ValidateTaskCode(records) ==
    LET Validated(v) ==
            IF FrameEmpty(v.df)
            THEN TaskResult("skipped", <<>>, <<Ev("validate", 0, Len(v.df.rows), TRUE)>>)
            ELSE TaskResult("success", v.df.rows, <<Ev("validate", 0, Len(v.df.rows), TRUE)>>)
    IN  IF NoData(records) THEN TaskResult("skipped", <<>>, <<>>)
        ELSE Validated(apply_validation(DataFrame(records), load_rules))

\* write_task, on the records pulled from validate
WriteTaskCode(records, regs, comps, write_db) ==
    LET out(result, db) ==
            [result |-> result, regulations |-> regs, components |-> comps,
             write_db |-> db, ret |-> NoWrite]
        Written(w) ==
            [result |-> TaskResult("success", <<>>,
                                   <<Ev("connect", 0, 0, TRUE), Ev("write", 0, w.count, TRUE)>>),
             regulations |-> w.regulations, components |-> w.components,
             write_db |-> write_db, ret |-> Outcome(w)]
    IN  IF NoData(records) THEN out(TaskResult("skipped", <<>>, <<>>), "none")
        ELSE IF write_db = "down" THEN
            out(TaskResult("failed", <<>>, <<Ev("connect", 0, 0, FALSE)>>), "down")
        ELSE Written(insert_new_records(regs, comps, DataFrame(records), ENTITY_VALUE, write_db))

---------------------------------------------------------------------------
(* The runs' inputs: events, sites and stores.                              *)

\* One page more than the probe ever reads.
SitePages == PROBE_PAGES + 1

\* A record validation discards: its link is no http(s) address.
FtpRecord == [WebRecord(Date2) EXCEPT !.external_link = S(FtpLink)]

\* A record with the persisted date, a newer valid record and a newer record
\* that validation discards.
SiteRecords == {WebRecord(Date1), WebRecord(Date2), FtpRecord}

Sites == SitesOf(SiteRecords, SitePages, MaxRunRows)

Event(num_pages_to_scrape, force_scrape) ==
    [given |-> TRUE, num_pages_to_scrape |-> num_pages_to_scrape, force_scrape |-> force_scrape]

\* No event at all (None).
NoEvent == [given |-> FALSE, num_pages_to_scrape |-> Absent, force_scrape |-> Absent]

\* No event, the empty event, and events that ask for 0, 4, "2" or "abc"
\* pages with force_scrape true or false.
Events ==
    {NoEvent, Event(Absent, Absent), Event(Absent, B(TRUE)), Event(I(<<"4">>), Absent)} \cup
    {Event(n, f) :
        n \in {I(<<"0">>), I(<<"4">>), S(<<"2">>), S(<<"a", "b", "c">>)},
        f \in {B(TRUE), B(FALSE)}}

\* The row the pipeline persists for WebRecord(Date1).
StoredGood ==
    NormalizeIncoming(apply_validation(DataFrame(<<WebRecord(Date1)>>), load_rules).df.rows[1])

\* An empty store, and one that holds the regulation dated Date1.
PipelineStores == {<<>>, <<[id |-> 1, row |-> StoredGood]>>}

---------------------------------------------------------------------------
(* One run of the pipeline, in either entry shape.                          *)

Task(state, tries) == [state |-> state, tries |-> tries]

NewRun(shape, event, site) ==
    [pc |-> "ready", shape |-> shape, event |-> event, site |-> site, trace |-> <<>>,
     response |-> [raised |-> FALSE, statusCode |-> 0, body |-> [message |-> "", success |-> FALSE]],
     tasks |-> [extract |-> Task("none", 0), validate |-> Task("none", 0),
                write |-> Task("none", 0)],
     xcom |-> [extract |-> <<>>, validate |-> <<>>],
     write_db |-> "none", ret |-> NoWrite]

PipelineInit ==
    /\ pl \in {NewRun(shape, event, site) :
                shape \in {"lambda", "dag"}, event \in Events, site \in Sites}
    /\ regulations \in PipelineStores
    /\ components = <<>>
    /\ wr = NoRun /\ wprev = [succeeded |-> FALSE, count |-> 0, rerun |-> FALSE] /\ runs = 0
    /\ xin = <<>> /\ xout = <<>> /\ cw = <<>>
    /\ vin = <<>> /\ vout = <<>> /\ pin = <<>> /\ pout = <<>>

\* The synchronous invocation: lambda_handler(event, context).
Lambda(probe_db, write_db) ==
    /\ pl.shape = "lambda" /\ pl.pc = "ready"
    /\ LET Returns(r) ==
                /\ pl' = [pl EXCEPT !.pc = "done", !.response = r.response, !.trace = r.trace,
                                    !.write_db = r.write_db, !.ret = r.ret]
                /\ regulations' = r.regulations
                /\ components' = r.components
       IN  Returns(lambda_handler(pl.event, pl.site, regulations, components,
                                  probe_db, write_db))
    /\ UNCHANGED <<wr, wprev, runs, xin, xout, cw, vin, vout, pin, pout>>

Runnable(task) == pl.tasks[task].state \in {"none", "up_for_retry"}

\* The state of a task after a try: a failed try is retried RETRIES times.
AfterTry(task, outcome) ==
    LET tries == pl.tasks[task].tries + 1
    IN  Task(IF outcome = "failed" /\ tries <= RETRIES THEN "up_for_retry" ELSE outcome, tries)

\* The scheduler runs extract.
DagExtract(probe_db) ==
    /\ pl.shape = "dag" /\ Runnable("extract")
    /\ LET Ends(r) ==
                pl' = [pl EXCEPT !.tasks.extract = AfterTry("extract", r.outcome),
                                 !.xcom.extract = r.value,
                                 !.trace = @ \o r.trace]
       IN  Ends(ExtractTaskCode(pl.event, pl.site, regulations, probe_db))
    /\ regulations' = ProbeStage(DagOptions(pl.event), regulations, probe_db)
    /\ UNCHANGED <<components, wr, wprev, runs, xin, xout, cw, vin, vout, pin, pout>>

\* extract >> validate: validate runs once extract has succeeded.
DagValidate ==
    /\ pl.shape = "dag" /\ pl.tasks.extract.state = "success" /\ Runnable("validate")
    /\ LET Ends(r) ==
                pl' = [pl EXCEPT !.tasks.validate = AfterTry("validate", r.outcome),
                                 !.xcom.validate = r.value,
                                 !.trace = @ \o r.trace]
       IN  Ends(ValidateTaskCode(pl.xcom.extract))
    /\ UNCHANGED <<regulations, components, wr, wprev, runs, xin, xout, cw, vin, vout, pin, pout>>

\* validate >> write: write runs once validate has succeeded.
DagWrite(write_db) ==
    /\ pl.shape = "dag" /\ pl.tasks.validate.state = "success" /\ Runnable("write")
    /\ LET Ends(r) ==
                /\ pl' = [pl EXCEPT !.tasks.write = AfterTry("write", r.result.outcome),
                                    !.trace = @ \o r.result.trace,
                                    !.write_db = r.write_db, !.ret = r.ret]
                /\ regulations' = r.regulations
                /\ components' = r.components
       IN  Ends(WriteTaskCode(pl.xcom.validate, regulations, components, write_db))
    /\ UNCHANGED <<wr, wprev, runs, xin, xout, cw, vin, vout, pin, pout>>

Upstream(task) == IF task = "validate" THEN "extract" ELSE "validate"

\* The default trigger rule: a task whose upstream task was skipped is
\* skipped, one whose upstream task failed is marked upstream_failed.
DagPropagate(task) ==
    /\ pl.shape = "dag" /\ pl.tasks[task].state = "none"
    /\ pl.tasks[Upstream(task)].state \in {"skipped", "failed", "upstream_failed"}
    /\ pl' = [pl EXCEPT !.tasks[task].state =
                 IF pl.tasks[Upstream(task)].state = "skipped" THEN "skipped"
                 ELSE "upstream_failed"]
    /\ UNCHANGED <<regulations, components, wr, wprev, runs, xin, xout, cw, vin, vout, pin, pout>>

PipelineNext ==
    \/ \E probe_db \in ProbeDb, write_db \in WriteDb : Lambda(probe_db, write_db)
    \/ \E probe_db \in ProbeDb : DagExtract(probe_db)
    \/ DagValidate
    \/ \E write_db \in WriteDb : DagWrite(write_db)
    \/ \E task \in {"validate", "write"} : DagPropagate(task)

PipelineSpec == PipelineInit /\ [][PipelineNext]_vars

---------------------------------------------------------------------------
(* The extractor: scrape_page over the rows of one listing page.           *)
(* A character outside ASCII is written as its entity name ("oacute" for   *)
(* o with acute accent, "ldquo" for the left double quotation mark), and   *)
(* so are the ASCII quotes ("quot", "apos", "grave"); each counts as one   *)
(* character.                                                               *)

FIXED_CLASSIFICATION_ID == 13
DEFAULT_RTYPE_ID == 14
RESOLUCION_RTYPE_ID == 15
\* The longest title extract_title_and_link lets through (line 120).
EXTRACT_TITLE_MAX == 65

\* "https://www.ani.gov.co", the prefix of line 132
ORIGIN == <<"h", "t", "t", "p", "s", ":", "/", "/", "w", "w", "w", ".", "a",
            "n", "i", ".", "g", "o", "v", ".", "c", "o">>

\* The characters clean_quotes removes: those of quotes_map and of
\* quotes_pattern.
QuoteChars ==
    {"ldquo", "rdquo", "lsquo", "rsquo", "laquo", "raquo", "bdquo", "sbquo",
     "lsaquo", "rsaquo", "quot", "apos", "acute", "grave", "prime", "Prime"}

\* " ".join(words)
RECURSIVE JoinWords(_)
JoinWords(words) ==
    IF words = <<>> THEN <<>>
    ELSE IF Len(words) = 1 THEN words[1]
    ELSE words[1] \o <<" ">> \o JoinWords(Tail(words))

\* clean_quotes(text) for a text that is not None: the quote characters are
\* removed, the ends stripped and every run of blanks made one blank.
clean_quotes(text) ==
    IF text = <<>> THEN text
    ELSE JoinWords(Words(Strip(SelectSeq(text, LAMBDA c : c \notin QuoteChars))))

\* str.lower() where the text may hold an accented O.
AccentLower(s) == [i \in 1..Len(s) |-> IF s[i] = "Oacute" THEN "oacute" ELSE LowerChar(s[i])]

\* str.capitalize(): the first character upper-cased, the others lower-cased.
Capitalize(s) ==
    [i \in 1..Len(s) |->
        IF i > 1 THEN AccentLower(s)[i]
        ELSE IF s[i] = "oacute" THEN "Oacute"
        ELSE IF \E k \in 1..26 : Lower[k] = s[i] THEN Upper[CHOOSE k \in 1..26 : Lower[k] = s[i]]
        ELSE s[i]]

\* `sub in s'
Contains(s, sub) ==
    \E k \in 0..(Len(s) - Len(sub)) : SubSeq(s, k + 1, k + Len(sub)) = sub

\* s.startswith(prefix)
StartsWith(s, prefix) == Len(s) >= Len(prefix) /\ SubSeq(s, 1, Len(prefix)) = prefix

\* CLASSIFICATION_KEYWORDS, in the order of the dict.
CLASSIFICATION_KEYWORDS ==
    <<[keyword |-> <<"r", "e", "s", "o", "l", "u", "c", "i", "oacute", "n">>,
       rtype_id |-> RESOLUCION_RTYPE_ID],
      [keyword |-> <<"r", "e", "s", "o", "l", "u", "c", "i", "o", "n">>,
       rtype_id |-> RESOLUCION_RTYPE_ID],
      [keyword |-> <<"d", "e", "c", "r", "e", "t", "o">>, rtype_id |-> DEFAULT_RTYPE_ID]>>

\* get_rtype_id(title): the id of the first keyword the lower-cased title
\* contains, DEFAULT_RTYPE_ID when it contains none.
get_rtype_id(title) ==
    LET hits == {k \in 1..Len(CLASSIFICATION_KEYWORDS) :
                    Contains(AccentLower(title), CLASSIFICATION_KEYWORDS[k].keyword)}
    IN  IF hits = {} THEN DEFAULT_RTYPE_ID
        ELSE CLASSIFICATION_KEYWORDS[CHOOSE k \in hits : \A j \in hits : k <= j].rtype_id

\* The length check of line 120 rejecting titles of EXTRACT_TITLE_MAX
\* characters too.
TitleTooLongFromMax(cleaned_title) == Len(cleaned_title) >= EXTRACT_TITLE_MAX

\* Line 120: len(cleaned_title) > 65
TitleTooLong(cleaned_title) == Len(cleaned_title) > EXTRACT_TITLE_MAX

\* The href taken as it is written in the page.
AbsoluteLinkAsWritten(href) == href

\* Lines 130-132: a non-empty href that does not start with "http" is
\* prefixed with the origin of the site; href is None when the attribute
\* is missing.
AbsoluteLink(href) ==
    IF ~IsNull(href) /\ href.v # <<>> /\ ~StartsWith(href.v, <<"h", "t", "t", "p">>)
    THEN S(ORIGIN \o href.v)
    ELSE href

\* A row of the listing as the parser presents it:
\*   title    "none" (no title cell), "no_link" (a title cell without <a>)
\*            or "link"; text is the text of the <a> and href its attribute
\*   summary  the text of the body cell, NULL when the row has none
\*   fecha    "none" (no date cell), "cell" (a date cell without the span),
\*            "span" (the span's content attribute or, without it, its text)
HtmlRow(title, text, href, summary, fecha, raw) ==
    [title |-> title, text |-> text, href |-> href, summary |-> summary,
     fecha |-> fecha, raw |-> raw]

\* get_text(strip=True)
GetText(text) == Strip(text)

\* The outcome of a step of the row loop: `ok' is what the helper returned,
\* `data' is norma_data after it.
Extracted(ok, data) == [ok |-> ok, data |-> data]

\* extract_title_and_link(row, norma_data, verbose, row_num)
extract_title_and_link(row, norma_data) ==
    LET Linked(titled, external_link) ==
            Extracted(~IsNull(external_link) /\ external_link.v # <<>>,
                      [titled EXCEPT !.external_link = external_link,
                                     !.gtype = IF ~IsNull(external_link) /\ external_link.v # <<>>
                                               THEN S(<<"l", "i", "n", "k">>) ELSE NULL])
        Titled(cleaned_title) ==
            IF TitleTooLong(cleaned_title) THEN Extracted(FALSE, norma_data)
            ELSE Linked([norma_data EXCEPT !.title = S(cleaned_title)], AbsoluteLink(row.href))
    IN  IF row.title # "link" THEN Extracted(FALSE, norma_data)
        ELSE Titled(clean_quotes(GetText(row.text)))

\* extract_summary(row, norma_data)
extract_summary(row, norma_data) ==
    IF IsNull(row.summary) THEN [norma_data EXCEPT !.summary = NULL]
    ELSE [norma_data EXCEPT !.summary = S(Capitalize(clean_quotes(GetText(row.summary.v))))]

\* str.zfill(2)
ZFill2(s) ==
    IF Len(s) >= 2 THEN s
    ELSE IF Len(s) = 1 /\ s[1] \in {"+", "-"} THEN s \o <<"0">>
    ELSE IF Len(s) = 1 THEN <<"0">> \o s
    ELSE <<"0", "0">>

\* Lines 167-179: the text of the date, normalised when it has a "T" or
\* is day/month/year.
CreatedAtText(row) ==
    LET Slashed(parts) ==
            IF Len(parts) = 3
            THEN parts[3] \o <<"-">> \o ZFill2(parts[2]) \o <<"-">> \o ZFill2(parts[1])
            ELSE row.raw
    IN  IF row.fecha = "cell" THEN GetText(row.raw)
        ELSE IF \E i \in 1..Len(row.raw) : row.raw[i] = "T" THEN SplitOn(row.raw, "T")[1]
        ELSE IF \E i \in 1..Len(row.raw) : row.raw[i] = "/" THEN Slashed(SplitOn(row.raw, "/"))
        ELSE row.raw

\* extract_creation_date(row, norma_data, verbose, row_num)
extract_creation_date(row, norma_data) ==
    LET Dated(created_at) ==
            Extracted(is_valid_created_at(created_at),
                      [norma_data EXCEPT !.created_at = created_at])
    IN  Dated(IF row.fecha = "none" THEN NULL ELSE S(CreatedAtText(row)))

\* Lines 222-233: norma_data before the row is read; `now' is the text of
\* datetime.now().
NewNormaData(now) ==
    [created_at |-> NULL, update_at |-> S(now), is_active |-> B(TRUE), title |-> NULL,
     gtype |-> NULL, entity |-> S(ENTITY_VALUE), external_link |-> NULL, rtype_id |-> NULL,
     summary |-> NULL, classification_id |-> I(NatToText(FIXED_CLASSIFICATION_ID))]

\* Lines 235-245: the records one row contributes, none or one.
ScrapeRow(row, now) ==
    LET Dated(d) ==
            IF ~d.ok THEN <<>>
            ELSE <<[d.data EXCEPT !.rtype_id = I(NatToText(get_rtype_id(d.data.title.v)))]>>
        TitledAndLinked(t) ==
            IF ~t.ok THEN <<>>
            ELSE Dated(extract_creation_date(row, extract_summary(row, t.data)))
    IN  TitledAndLinked(extract_title_and_link(row, NewNormaData(now)))

RECURSIVE ScrapeRows(_, _)
ScrapeRows(rows, now) ==
    IF rows = <<>> THEN <<>>
    ELSE ScrapeRow(Head(rows), now) \o ScrapeRows(Tail(rows), now)

\* scrape_page(page_num) for a page whose request gave `fetch': "ok", an
\* HTTP or network error ("http_error", lines 254-256), or a document
\* without a table body ("no_tbody", lines 210-213).  It never raises.
ScrapePageCode(page, now) ==
    [raised |-> FALSE,
     records |-> IF page.fetch = "ok" THEN ScrapeRows(page.rows, now) ELSE <<>>]

---------------------------------------------------------------------------
(* Listing pages handed to scrape_page, and one scrape of a page.          *)

\* The most rows a listing page holds.
MaxPageRows == 2

Title65 == [i \in 1..EXTRACT_TITLE_MAX |-> "a"]
Title66 == [i \in 1..(EXTRACT_TITLE_MAX + 1) |-> "a"]

IsoDate == Date2 \o <<"T">> \o Time1
RelativeHref == <<"/", "n", "o", "r", "m", "a">>

\* A row with a title link, a relative href, a summary and an ISO date.
TitleRow(text) == HtmlRow("link", text, S(RelativeHref), S(<<"u", "n", "o", " ", "D", "O", "S">>), "span", IsoDate)

DecretoRow == TitleRow(<<"D", "e", "c", "r", "e", "t", "o", " ", "1">>)

\* Rows that differ in the title: quoted upper-case text with a double blank,
\* 65 and 66 characters, 65 characters inside quotation marks, 66 characters
\* with a double blank, 66 characters after a quote, and no text.
BoundaryTitleRows ==
    {TitleRow(<<"quot", "R", "E", "S", "O", "L", "U", "C", "I", "Oacute", "N", " ", " ", "2", "quot">>),
     TitleRow(Title65), TitleRow(Title66),
     TitleRow(<<"ldquo">> \o Title65 \o <<"rdquo">>),
     TitleRow(<<"a", " ", " ">> \o SubSeq(Title65, 1, EXTRACT_TITLE_MAX - 2)),
     TitleRow(<<"apos">> \o Title66),
     TitleRow(<<>>)}

\* Rows without a title cell or without a link in it, without an href, with
\* an empty, an absolute and a slash-less href.
LinkRows ==
    {[DecretoRow EXCEPT !.title = "none"], [DecretoRow EXCEPT !.title = "no_link"],
     [DecretoRow EXCEPT !.href = NULL], [DecretoRow EXCEPT !.href = S(<<>>)],
     [DecretoRow EXCEPT !.href = S(LinkX)], [DecretoRow EXCEPT !.href = S(<<"x">>)]}

\* Rows without a date cell, with a date cell without the span, with a
\* day/month/year date, with a day/month text, a blank content attribute
\* and a content that starts with "T"; and a row without the body cell.
DateRows ==
    {[DecretoRow EXCEPT !.fecha = "none"],
     [DecretoRow EXCEPT !.fecha = "cell", !.raw = <<" ">> \o Date1 \o <<" ">>],
     [DecretoRow EXCEPT !.raw = <<"5", "/", "3", "/", "2", "0", "2", "4">>],
     [DecretoRow EXCEPT !.raw = <<"1", "5", "/", "0", "3">>],
     [DecretoRow EXCEPT !.raw = <<" ">>],
     [DecretoRow EXCEPT !.raw = <<"T", "1", "0">>],
     [DecretoRow EXCEPT !.summary = NULL]}

HtmlRows == {DecretoRow} \cup BoundaryTitleRows \cup LinkRows \cup DateRows

Page(fetch, rows) == [fetch |-> fetch, rows |-> rows]

\* Pages that were fetched, a failed request and a document without a table.
Pages ==
    {Page("ok", rows) : rows \in SeqsUpTo(HtmlRows, MaxPageRows)}
        \cup {Page("http_error", <<>>), Page("no_tbody", <<>>)}

\* Records as scrape_page builds them, with titles at the boundary.
TitledRecord(title) == [GoodRecord EXCEPT !.title = S(title)]

\* Frames handed to the validator directly.
BoundaryFrames ==
    {Frame(ScrapeCols, rows) :
        rows \in {<<TitledRecord(Title65)>>, <<TitledRecord(Title66)>>,
                  <<TitledRecord(Title65), TitledRecord(Title66)>>,
                  <<TitledRecord(Title66), GoodRecord>>}}

NotScraped == [done |-> FALSE, raised |-> FALSE, records |-> <<>>]

ScrapeInit ==
    /\ xin \in [page : Pages, now : {Stamp1}]
    /\ xout = NotScraped
    /\ vin \in [df : BoundaryFrames, rules : {DEFAULT_RULES}]
    /\ vout = NotValidated
    /\ regulations = <<>> /\ components = <<>>
    /\ wr = NoRun /\ wprev = [succeeded |-> FALSE, count |-> 0, rerun |-> FALSE]
    /\ runs = 0 /\ cw = <<>>
    /\ pin = <<>> /\ pout = <<>> /\ pl = Idle

\* page_data = scrape_page(page_num)
ScrapePage ==
    /\ ~xout.done
    /\ LET Returns(r) == xout' = [done |-> TRUE, raised |-> r.raised, records |-> r.records]
       IN  Returns(ScrapePageCode(xin.page, xin.now))
    /\ UNCHANGED <<regulations, components, wr, wprev, runs, xin, cw, vin, vout, pin, pout, pl>>

\* lambda.py lines 51-69: the records of the page, when there are any, are
\* validated under the default rules.
ValidateScraped ==
    /\ xout.done /\ ~vout.done /\ ~NoData(xout.records)
    /\ vin' = [df |-> DataFrame(xout.records), rules |-> load_rules]
    /\ LET Returns(r) == vout' = [done |-> TRUE, df |-> r.df, stats |-> r.stats]
       IN  Returns(apply_validation(DataFrame(xout.records), load_rules))
    /\ UNCHANGED <<regulations, components, wr, wprev, runs, xin, xout, cw, pin, pout, pl>>

ScrapeNext == ScrapePage \/ ValidateScraped \/ Validate

ScrapeSpec == ScrapeInit /\ [][ScrapeNext]_vars

---------------------------------------------------------------------------
(* Properties of the writer.                                               *)

\* The identity key of the data model: (trimmed title, string-form
\* created_at, external_link or the empty string), compared as a tuple.
IdentityTuple(row) ==
    <<Strip(AsStr(row.title)), AsStr(row.created_at), AsStr(FillNa(row.external_link))>>

EntityRows(rows) == SelectSeq(rows, LAMBDA r : r.entity = S(ENTITY_VALUE))

\* The identity keys persisted for the entity before the last run.
PersistedTuples == {IdentityTuple(r.row) : r \in SeqRange(ExistingRecords(wr.before, ENTITY_VALUE))}

\* The rows the last run added to the regulations table.
InsertedRows == SubSeq(regulations, Len(wr.before) + 1, Len(regulations))

\* The rows of the last batch that carry a new identity key for the first time,
\* in batch order.
FirstNewIndices(rows) ==
    {i \in 1..Len(rows) :
        /\ IdentityTuple(rows[i]) \notin PersistedTuples
        /\ \A j \in 1..(i - 1) : IdentityTuple(rows[j]) # IdentityTuple(rows[i])}

\* C1: when a run of insert_new_records with a batch has succeeded and the
\* same batch is run again, the second run returns count 0 and leaves the
\* regulations table as it was.
C1_Idempotence ==
    (wprev.rerun /\ wprev.succeeded) =>
        /\ wr.ret.count = 0
        /\ regulations = wr.before

\* A batch whose first run inserted records has been run a second time.
C1_Witness ==
    /\ wprev.rerun /\ wprev.succeeded /\ wprev.count > 0
    /\ wr.ret.msg = "no_new"
    /\ Len(wr.df.rows) = MaxBatch

\* C2: a run that completes persists exactly the first occurrence, in batch
\* order, of each identity key that no persisted record of the entity has,
\* and returns their number.
C2_DuplicatePartition ==
    (wr.ret.msg \in {"inserted", "no_new"}) =>
        LET rows == EntityRows(wr.df.rows)
            first == PickIndices(rows, FirstNewIndices(rows), 1)
        IN  /\ wr.ret.count = Len(first)
            /\ Len(InsertedRows) = Len(first)
            /\ \A i \in 1..Len(first) :
                  i <= Len(InsertedRows) =>
                      IdentityTuple(InsertedRows[i].row) = IdentityTuple(first[i])

\* C3: an incoming record is marked as an already-persisted duplicate exactly
\* when its identity tuple equals that of a persisted record of the entity.
C3_DuplicateIffSameTuple ==
    (wr.ret.msg \in {"inserted", "no_new", "unique_skipped"}) =>
        LET rows == EntityRows(wr.df.rows)
        IN  \A i \in 1..Len(rows) :
                wr.ret.is_duplicate[i] <=> (IdentityTuple(rows[i]) \in PersistedTuples)

---------------------------------------------------------------------------
(* Properties of the validator.                                            *)

RequiredFields(rules) == {f \in DOMAIN rules : rules[f].required}

\* C4: every row of the frame apply_validation returns has a non-null value
\* in every field the ruleset marks required, also in required fields that
\* were no column of the input.
C4_RequiredFieldInvariant ==
    vout.done =>
        \A i \in 1..Len(vout.df.rows) : \A f \in RequiredFields(vin.rules) :
            /\ f \in DOMAIN vout.df.rows[i]
            /\ ~IsNull(vout.df.rows[i][f])

---------------------------------------------------------------------------
(* Properties of the probe.                                                *)

\* The records on the pages the probe read.
ProbedRecords == UNION {SeqRange(pin.pages[p]) : p \in 1..pin.n}

\* A record whose created_at parses and is strictly later than `latest'.
NewerThan(record, latest) ==
    /\ ParseWebDate(record.created_at.v).ok
    /\ DateAfter(ParseWebDate(record.created_at.v), latest)

\* C5: when the accessor returns, the probe answers true exactly when there
\* is no persisted latest date, whatever the pages hold, or some probed record
\* has a parseable creation date strictly newer than the persisted latest.
C5_ProbeResult ==
    (pout.done /\ pin.latest.kind # "raise") =>
        (pout.result <=>
            \/ pin.latest.kind = "none"
            \/ \E r \in ProbedRecords : NewerThan(r, pin.latest.value))

\* C6: when the latest-date accessor raises, the probe returns true and
\* does not propagate the exception.
C6_ProbeConservatism ==
    (pout.done /\ pin.latest.kind = "raise") => (pout.result /\ ~pout.raised)

\* The accessor raised over pages that hold nothing newer, and the probe
\* has returned.
C6_Witness ==
    /\ pout.done /\ pin.latest.kind = "raise"
    /\ pin.n = PROBE_PAGES
    /\ \A r \in ProbedRecords : ~NewerThan(r, ParseYmd(Date2))

---------------------------------------------------------------------------
(* Properties of the two entry points.                                      *)

\* The run has ended: the handler returned, or no task can still run.
RunEnded ==
    \/ pl.shape = "lambda" /\ pl.pc = "done"
    \/ pl.shape = "dag" /\ \A t \in {"extract", "validate", "write"} :
            pl.tasks[t].state \in {"success", "skipped", "failed", "upstream_failed"}

Stages(stage) == {i \in 1..Len(pl.trace) : pl.trace[i].stage = stage}

\* The writer's connection could not be opened, or the bulk insert was
\* attempted and failed with something other than a uniqueness collision.
ConnectionOrCommitError ==
    \/ pl.write_db = "down"
    \/ pl.write_db = "insert_other" /\ pl.ret.new_records # <<>>

\* C7: in the synchronous invocation an error of the store connection or of
\* the final commit of the bulk insert (other than a uniqueness collision)
\* gives the failure result (500, success = false), never a success result.
C7_StoreErrorIsFailure ==
    (pl.shape = "lambda" /\ pl.pc = "done" /\ ConnectionOrCommitError) =>
        (pl.response.statusCode = 500 /\ ~pl.response.body.success)

\* C8: lambda_handler never raises: it returns 200 with success = true or
\* 500 with success = false and the exception text; the no-new-content,
\* zero-extracted and all-rows-discarded outcomes are 200 successes with
\* records_inserted = 0.
C8_StructuredOutcome ==
    (pl.shape = "lambda" /\ pl.pc = "done") =>
        /\ ~pl.response.raised
        /\ \/ pl.response.statusCode = 200 /\ pl.response.body.success
           \/ /\ pl.response.statusCode = 500 /\ ~pl.response.body.success
              /\ pl.response.body.message # ""
        /\ (\/ Stages("scrape") = {}
            \/ \E i \in Stages("scrape") : pl.trace[i].records = 0
            \/ \E i \in Stages("validate") : pl.trace[i].records = 0) =>
              \/ pl.response.statusCode = 500
              \/ /\ pl.response.statusCode = 200 /\ pl.response.body.success
                 /\ pl.response.body.records_inserted = 0
                 /\ pl.response.body.message \in {"no_new_content", "no_data", "all_discarded"}

\* An invocation without an event failed at the writer's connection.
C8_Witness ==
    /\ pl.shape = "lambda" /\ pl.pc = "done"
    /\ pl.response.statusCode = 500
    /\ pl.write_db = "down"
    /\ pl.event = NoEvent

StageRank(stage) ==
    CASE stage = "probe" -> 0
      [] stage = "scrape" -> 1
      [] stage = "validate" -> 2
      [] stage = "connect" -> 3
      [] stage = "write" -> 4

\* C9: in both entry shapes the stages run in the order extract, validate,
\* write; when extraction yields no records neither validation nor the writer
\* runs, when validation retains no rows the writer is not invoked and no
\* connection is opened for writing, and such a run ends without error.
C9_StageShortCircuit ==
    /\ \A i, j \in 1..Len(pl.trace) :
            i < j => StageRank(pl.trace[i].stage) <= StageRank(pl.trace[j].stage)
    /\ (Stages("validate") # {} \/ Stages("connect") # {}) => Stages("scrape") # {}
    /\ Stages("connect") # {} => Stages("validate") # {}
    /\ \A i \in Stages("scrape") :
            pl.trace[i].records = 0 =>
                /\ Stages("validate") = {} /\ Stages("connect") = {} /\ Stages("write") = {}
                /\ regulations \in PipelineStores
                /\ pl.shape = "lambda" /\ pl.pc = "done" =>
                        pl.response.statusCode = 200 /\ pl.response.body.success
                /\ pl.shape = "dag" =>
                        \A t \in {"extract", "validate", "write"} :
                            pl.tasks[t].state \notin {"failed", "upstream_failed", "up_for_retry"}
    /\ \A i \in Stages("validate") :
            pl.trace[i].records = 0 =>
                /\ Stages("connect") = {} /\ Stages("write") = {}
                /\ regulations \in PipelineStores
                /\ pl.shape = "lambda" /\ pl.pc = "done" =>
                        pl.response.statusCode = 200 /\ pl.response.body.success
                /\ pl.shape = "dag" =>
                        \A t \in {"extract", "validate", "write"} :
                            pl.tasks[t].state \notin {"failed", "upstream_failed", "up_for_retry"}

\* A DAG run whose validation kept nothing of what was extracted has ended
\* with the write task skipped.
C9_Witness ==
    /\ pl.shape = "dag" /\ RunEnded
    /\ \E i \in Stages("scrape") : pl.trace[i].records > 0
    /\ \E i \in Stages("validate") : pl.trace[i].records = 0
    /\ pl.tasks.validate.state = "skipped" /\ pl.tasks.write.state = "skipped"

\* The page count the event asks for, 9 when it names none.
RequestedPages == Options(pl.event).requested

\* C10: with force_scrape the probe is never run and pages 0..n-1 are
\* scraped; without it the probe runs first over min(3, n) pages and the
\* scrape, and any write, happen only if the probe answered true; n is the
\* requested page count clamped to at least 1.
C10_ProbeGating ==
    Options(pl.event).ok =>
        LET n == IF RequestedPages < 1 THEN 1 ELSE RequestedPages
            extracted == \/ pl.shape = "lambda" /\ pl.pc = "done"
                         \/ pl.shape = "dag" /\ pl.tasks.extract.state \in {"success", "skipped"}
        IN  /\ \A i \in Stages("scrape") : pl.trace[i].pages = n
            /\ \A i \in Stages("probe") : pl.trace[i].pages = Min(PROBE_PAGES, n)
            /\ \A i \in Stages("probe") : pl.trace[i].pages <= n
            /\ Options(pl.event).force_scrape =>
                    /\ Stages("probe") = {}
                    /\ extracted => Stages("scrape") # {}
            /\ ~Options(pl.event).force_scrape =>
                    /\ extracted => Stages("probe") = {1}
                    /\ \A i \in Stages("scrape") \cup Stages("connect") \cup Stages("write") :
                            1 \in Stages("probe") /\ pl.trace[1].result /\ i > 1
                    /\ (extracted /\ pl.trace[1].result) => Stages("scrape") # {}

\* A run that was not forced and asked for 0 pages probed one page, found
\* new content, scraped that one page and reached the writer.
C10_Witness ==
    /\ RunEnded /\ ~Options(pl.event).force_scrape
    /\ RequestedPages = 0
    /\ Stages("probe") = {1} /\ pl.trace[1].pages = 1 /\ pl.trace[1].result
    /\ \E i \in Stages("scrape") : pl.trace[i].pages = 1 /\ pl.trace[i].records > 0
    /\ Stages("write") # {}

---------------------------------------------------------------------------
(* Failures of the store during a writer run.                              *)

\* The bulk insert of the last run was attempted and failed.
InsertFailed == wr.ret.failed \in {"insert_unique", "insert_other"}

\* C11: when the bulk insert of the new records fails, the regulations table
\* is what it was before the run and the run returns count 0 with a message:
\* the skipped-duplicates message when the failure text names a duplicate or
\* uniqueness violation, the error message otherwise.
C11_InsertFailureRollsBack ==
    InsertFailed =>
        /\ regulations = wr.before
        /\ components = wr.comps_before
        /\ wr.ret.count = 0
        /\ wr.ret.msg = (IF wr.ret.failed = "insert_unique" THEN "unique_skipped" ELSE "error")

\* A bulk insert of a full batch of new records failed on a uniqueness
\* violation, against a table that already held records.
C11_Witness ==
    /\ wr.ret.failed = "insert_unique"
    /\ Len(wr.ret.new_records) = MaxBatch
    /\ wr.before # <<>>
    /\ wr.ret.msg = "unique_skipped"

\* C12: when the insert of the component rows fails, the regulations inserted
\* by the run stay persisted, the run returns their number (not 0) and the
\* returned message carries the component error.
C12_ComponentFailureKeepsInsert ==
    (wr.ret.failed = "component") =>
        /\ regulations = BulkInsertRegulations(wr.before, wr.ret.new_records)
        /\ wr.ret.new_records # <<>>
        /\ wr.ret.count = Len(wr.ret.new_records)
        /\ wr.ret.msg = "inserted"
        /\ wr.ret.component_message = "error"
        /\ components = wr.comps_before

\* The component insert failed after a full batch of regulations was inserted.
C12_Witness ==
    /\ wr.ret.failed = "component"
    /\ wr.ret.count = MaxBatch
    /\ Len(regulations) = Len(wr.before) + MaxBatch

---------------------------------------------------------------------------
(* The store during the stages before the writer.                          *)

\* The step ends with the writer having handed records to the bulk insert.
BulkInsertReached ==
    /\ \E i \in 1..Len(pl'.trace) : pl'.trace[i].stage = "write"
    /\ pl'.ret.new_records # <<>>

\* C13: the probe, the extraction and the validation never modify the store:
\* a step of a run changes the regulations or the component table only when
\* the writer has reached its bulk insert.
C13_StagesLeaveStore ==
    [][(regulations' # regulations \/ components' # components) => BulkInsertReached]_vars

\* A run over a store that holds records made its probe, its scrape and its
\* validation and ended without reaching the writer.
C13_Witness ==
    /\ regulations # <<>>
    /\ Stages("probe") # {} /\ Stages("scrape") # {} /\ Stages("validate") # {}
    /\ Stages("write") = {}
    /\ pl.pc = "done" \/ pl.tasks.write.state = "skipped"

---------------------------------------------------------------------------
(* Which rows the validator drops.                                         *)

\* The rows of the validated frame that are null in a required field once
\* every ruled field has been processed.
NullInRequired ==
    {i \in 1..Len(vin.df.rows) :
        \E f \in RequiredFields(vin.rules) :
            IsNull(CleanCell(vin.df, vin.rules, vin.df.rows[i], f).cell)}

\* C14: apply_validation drops a row exactly when, after the per-field
\* processing, the row is null in a required field: the rows returned are the
\* other rows, in order, with the cells nulled in non-required fields still
\* null, and rows_discarded is the number of rows dropped.
C14_DropIffRequiredNull ==
    vout.done =>
        LET kept == PickIndices(vin.df.rows, (1..Len(vin.df.rows)) \ NullInRequired, 1)
        IN  /\ vout.stats.rows_discarded = Cardinality(NullInRequired)
            /\ Len(vout.df.rows) = Len(kept)
            /\ \A i \in 1..Len(kept) : \A f \in DOMAIN vin.rules :
                  i <= Len(vout.df.rows) /\ f \in DOMAIN vout.df.rows[i] =>
                      vout.df.rows[i][f] = CleanCell(vin.df, vin.rules, kept[i], f).cell

---------------------------------------------------------------------------
(* Properties of the extractor.                                            *)

\* The rows of the scraped page, none when the page could not be read.
PageRows == IF xin.page.fetch = "ok" THEN xin.page.rows ELSE <<>>

CleanedTitle(row) == clean_quotes(GetText(row.text))

\* The row has a title link, an href that is not empty and a date text that
\* is not blank.
LinkedAndDated(row) ==
    /\ row.title = "link"
    /\ ~IsNull(row.href) /\ row.href.v # <<>>
    /\ row.fecha # "none" /\ Strip(CreatedAtText(row)) # <<>>

TitlesOfLength(rows, n) == {i \in 1..Len(rows) : rows[i].title.t = "str" /\ Len(rows[i].title.v) = n}

\* The rows of the validated frame that are valid in every required field
\* other than the title.
ValidBesidesTitle ==
    {i \in 1..Len(vin.df.rows) :
        \A f \in RequiredFields(vin.rules) \ {"title"} :
            ~IsNull(CleanCell(vin.df, vin.rules, vin.df.rows[i], f).cell)}

\* C15: a cleaned title of exactly 65 characters is retained by the extractor
\* and by the validator under the default rules; one of 66 characters is
\* skipped by the extractor, and nulled and its row dropped by the validator.
C15_TitleBoundary ==
    /\ xout.done =>
          /\ Cardinality(TitlesOfLength(xout.records, 65)) =
                Cardinality({i \in 1..Len(PageRows) :
                                LinkedAndDated(PageRows[i]) /\ Len(CleanedTitle(PageRows[i])) = 65})
          /\ TitlesOfLength(xout.records, 66) = {}
    /\ vout.done =>
          /\ Cardinality(TitlesOfLength(vout.df.rows, 65)) =
                Cardinality(TitlesOfLength(vin.df.rows, 65) \cap ValidBesidesTitle)
          /\ TitlesOfLength(vout.df.rows, 66) = {}
          /\ vout.stats.rows_discarded >= Cardinality(TitlesOfLength(vin.df.rows, 66))
          /\ TitlesOfLength(vin.df.rows, 66) # {} =>
                /\ "title" \in DOMAIN vout.stats.invalid_cells
                /\ vout.stats.invalid_cells["title"] >= Cardinality(TitlesOfLength(vin.df.rows, 66))

\* A page with a row whose title cleans to 65 characters and a row whose
\* title cleans to 66 was scraped and gave the one record; a frame with a
\* title of 65 and a title of 66 characters was validated and kept the one row.
C15_Witness ==
    /\ xout.done /\ vout.done
    /\ \E i, j \in 1..Len(PageRows) :
          /\ LinkedAndDated(PageRows[i]) /\ Len(CleanedTitle(PageRows[i])) = 65
          /\ Len(PageRows[i].text) > 65
          /\ LinkedAndDated(PageRows[j]) /\ Len(CleanedTitle(PageRows[j])) = 66
    /\ Len(xout.records) = 1
    /\ TitlesOfLength(vin.df.rows, 65) # {} /\ TitlesOfLength(vin.df.rows, 66) # {}
    /\ Len(vout.df.rows) = 1 /\ TitlesOfLength(vout.df.rows, 65) # {}

\* C16: scrape_page does not raise, a page that cannot be fetched or parsed
\* gives the empty list, a row gives a record only when its title, link and
\* date checks pass, and every record has a title of at most 65 characters,
\* a non-empty external_link that starts with "http" (a relative href is
\* prefixed with the origin), a non-blank created_at, an rtype_id of the
\* keyword table or the fallback, is_active true, and the constant entity and
\* classification_id.
C16_RecordsComplete ==
    xout.done =>
        /\ ~xout.raised
        /\ xin.page.fetch # "ok" => xout.records = <<>>
        /\ Len(xout.records) =
              Cardinality({i \in 1..Len(PageRows) :
                              LinkedAndDated(PageRows[i]) /\ Len(CleanedTitle(PageRows[i])) <= 65})
        /\ \A i \in 1..Len(xout.records) :
              LET r == xout.records[i]
              IN  /\ r.title.t = "str" /\ Len(r.title.v) <= 65
                  /\ r.external_link.t = "str" /\ r.external_link.v # <<>>
                  /\ StartsWith(r.external_link.v, <<"h", "t", "t", "p">>)
                  /\ r.created_at.t = "str" /\ Strip(r.created_at.v) # <<>>
                  /\ r.rtype_id \in {I(<<"1", "5">>), I(<<"1", "4">>)}
                  /\ (r.rtype_id = I(<<"1", "5">>)) <=>
                        \/ Contains(AccentLower(r.title.v), <<"r", "e", "s", "o", "l", "u", "c", "i", "oacute", "n">>)
                        \/ Contains(AccentLower(r.title.v), <<"r", "e", "s", "o", "l", "u", "c", "i", "o", "n">>)
                  /\ r.is_active = B(TRUE)
                  /\ r.entity = S(ENTITY_VALUE)
                  /\ r.classification_id = I(<<"1", "3">>)

\* A page with a row that has a relative href and an upper-case keyword in
\* its title and a row without href was scraped and gave the one record.
C16_Witness ==
    /\ xout.done /\ Len(PageRows) = MaxPageRows /\ Len(xout.records) = 1
    /\ \E i \in 1..Len(PageRows) : IsNull(PageRows[i].href)
    /\ xout.records[1].rtype_id = I(<<"1", "5">>)
    /\ StartsWith(xout.records[1].external_link.v, ORIGIN)

---------------------------------------------------------------------------
(* The component rows of a run.                                            *)

\* The rows the last run added to the component table.
CreatedComponents == SubSeq(components, Len(wr.comps_before) + 1, Len(components))

\* C17: when a single writer's run has inserted N regulations and completed,
\* the component rows it created are exactly N: one for each id assigned in
\* the run, none for a regulation persisted before it, each with component
\* id 7.
C17_ComponentsMatchInserted ==
    (wr.ret.msg = "inserted" /\ wr.ret.failed = "") =>
        /\ wr.ret.count = Len(InsertedRows) /\ wr.ret.count > 0
        /\ SubSeq(regulations, 1, Len(wr.before)) = wr.before
        /\ SubSeq(components, 1, Len(wr.comps_before)) = wr.comps_before
        /\ Len(CreatedComponents) = wr.ret.count
        /\ {c.regulations_id : c \in SeqRange(CreatedComponents)} =
              {r.id : r \in SeqRange(InsertedRows)}
        /\ \A c \in SeqRange(CreatedComponents) :
              /\ c.components_id = 7
              /\ \A r \in SeqRange(wr.before) : r.id # c.regulations_id

\* A full batch of new records was inserted into a table that already held
\* records of the entity, and the run completed.
C17_Witness ==
    /\ wr.ret.msg = "inserted" /\ wr.ret.failed = ""
    /\ wr.ret.count = MaxBatch
    /\ ExistingRecords(wr.before, ENTITY_VALUE) # <<>>
    /\ Len(CreatedComponents) = MaxBatch

---------------------------------------------------------------------------
(* Two runs of insert_new_records on one store, each in its own session:   *)
(* a run reads the persisted records (lines 137-143) and later makes its   *)
(* duplicate check and its insert (lines 159-252) from what it read.       *)

\* The longest batch of a session.
MaxSessionRows == 2

Sessions == {1, 2}

SessionRows == {RowA, RowASpace, RowB}

SessionBatches == {Frame(WriterCols, rows) : rows \in SeqsUpTo(SessionRows, MaxSessionRows)}

\* No two records of the entity in the table share an identity key.
StoreUnique(regs) ==
    \A i, j \in 1..Len(regs) :
        (i # j /\ regs[i].row.entity = S(ENTITY_VALUE) /\ regs[j].row.entity = S(ENTITY_VALUE))
            => IdentityTuple(regs[i].row) # IdentityTuple(regs[j].row)

\* The stores the sessions start from: empty, or holding one record (with an
\* untrimmed title, or without a link).
SessionStores == {<<>>, <<[id |-> 1, row |-> RowASpace]>>, <<[id |-> 1, row |-> RowB]>>}

\* A session that has not started: `alone' tells whether no other run was
\* between its read and its insert when this run read.
Waiting ==
    [pc |-> "idle", df |-> Frame(WriterCols, <<>>), read |-> <<>>, alone |-> TRUE,
     ret |-> NoRun.ret]

SessionsInit ==
    /\ regulations \in {st \in SessionStores : StoreUnique(st)}
    /\ components = <<>>
    /\ cw = [k \in Sessions |-> Waiting]
    /\ wr = NoRun /\ wprev = [succeeded |-> FALSE, count |-> 0, rerun |-> FALSE]
    /\ runs = 0 /\ xin = <<>> /\ xout = <<>>
    /\ vin = <<>> /\ vout = <<>> /\ pin = <<>> /\ pout = <<>> /\ pl = Idle

\* Lines 137-143: the run of session k starts and reads the persisted records.
SessionRead(k, df) ==
    /\ cw[k].pc = "idle"
    /\ cw' = [cw EXCEPT ![k] = [@ EXCEPT !.pc = "read", !.df = df, !.read = regulations,
                                         !.alone = \A j \in Sessions : cw[j].pc # "read"]]
    /\ UNCHANGED <<regulations, components, wr, wprev, runs, xin, xout, vin, vout, pin, pout, pl>>

\* Lines 159-267: the run of session k checks its batch against what it read,
\* inserts and returns.
SessionInsert(k, fault) ==
    /\ cw[k].pc = "read"
    /\ LET Returns(r) ==
                /\ regulations' = r.regulations
                /\ components' = r.components
                /\ cw' = [cw EXCEPT ![k] = [@ EXCEPT !.pc = "done", !.ret = Outcome(r)]]
       IN  Returns(InsertNewRecordsCode(cw[k].read, regulations, components, cw[k].df,
                                        ENTITY_VALUE, fault))
    /\ UNCHANGED <<wr, wprev, runs, xin, xout, vin, vout, pin, pout, pl>>

SessionsNext ==
    \/ \E k \in Sessions, df \in SessionBatches : SessionRead(k, df)
    \/ \E k \in Sessions, fault \in Faults : SessionInsert(k, fault)

SessionsSpec == SessionsInit /\ [][SessionsNext]_vars

\* Every run so far read, checked and inserted with no other run in between.
OneAtATime == \A k \in Sessions : cw[k].alone

BothDone == \A k \in Sessions : cw[k].pc = "done"

\* C18: from a store in which no two records of the entity share an identity
\* key, runs of insert_new_records made one at a time, with any batches and
\* any store failures, keep the store free of such pairs.
C18_SingleWriterUnique == OneAtATime => StoreUnique(regulations)

\* Two runs were made one after the other; both inserted records and the
\* second found records of its batch persisted.
C18_Witness ==
    /\ OneAtATime /\ BothDone
    /\ \A k \in Sessions : cw[k].ret.count > 0
    /\ \E k \in Sessions : cw[k].ret.duplicates_found > 0 /\ Len(cw[k].df.rows) = MaxSessionRows

\* The joined keys of the records of the entity in a table.
JoinedKeys(regs) ==
    {DbUniqueKey(NormalizeDb(r.row)) : r \in SeqRange(ExistingRecords(regs, ENTITY_VALUE))}

\* The number of records of the table with the identity key `key'.
Holding(key) ==
    Cardinality({i \in 1..Len(regulations) : IdentityTuple(regulations[i].row) = key})

\* C19: the duplicate check and the insert are not atomic: a run marks as
\* duplicates the records persisted when it read, also when another run has
\* inserted since; and when two runs have both read before either inserted,
\* a record both found new is inserted by both, so that the store holds two
\* records with its identity key.
C19_CheckThenInsertRace ==
    /\ \A k \in Sessions :
          (cw[k].pc = "done" /\ cw[k].ret.msg \in {"inserted", "no_new", "unique_skipped"}) =>
              LET rows == EntityRows(cw[k].df.rows)
              IN  \A i \in 1..Len(rows) :
                      cw[k].ret.is_duplicate[i] <=>
                          RowUniqueKey(NormalizeIncoming(rows[i])) \in JoinedKeys(cw[k].read)
    /\ (BothDone /\ ~OneAtATime /\ \A k \in Sessions : cw[k].ret.msg = "inserted") =>
          \A a \in SeqRange(cw[1].ret.new_records), b \in SeqRange(cw[2].ret.new_records) :
              IdentityTuple(a) = IdentityTuple(b) => Holding(IdentityTuple(a)) >= 2

\* Two runs both read before either inserted, both inserted, and the store
\* holds two records of the entity with the same identity key.
C19_Witness ==
    /\ BothDone /\ ~OneAtATime
    /\ \A k \in Sessions : cw[k].ret.msg = "inserted" /\ cw[k].ret.failed = ""
    /\ ~StoreUnique(regulations)

---------------------------------------------------------------------------
(* The writer's statistics.                                                *)

\* C20: in every run the numbers of persisted and of in-batch duplicates are
\* not negative, and the records processed are the persisted duplicates, the
\* in-batch duplicates and the records handed to the bulk insert.
C20_DuplicateAccounting ==
    (runs > 0) =>
        /\ wr.ret.duplicates_found >= 0
        /\ wr.ret.internal_duplicates >= 0
        /\ wr.ret.processed =
              wr.ret.duplicates_found + wr.ret.internal_duplicates + Len(wr.ret.new_records)

\* A run whose batch held a persisted record, a new record and a repetition
\* of the new record handed one record to the bulk insert.
C20_Witness ==
    /\ runs > 0
    /\ wr.ret.duplicates_found > 0
    /\ wr.ret.internal_duplicates > 0
    /\ Len(wr.ret.new_records) > 0
    /\ wr.ret.msg = "inserted"

=============================================================================
